---------------------------- MODULE Spec2Model ----------------------------
(***************************************************************************)
(* winlog-mcp: the channel guard, the XPath filter validator and the       *)
(* PowerShell event-log reader, as a state machine over calls.             *)
(*                                                                         *)
(* A JavaScript string is a sequence of code units; a code unit is a       *)
(* one-character TLA+ string, or a longer name for a code unit outside     *)
(* printable ASCII ("NUL", "NBSP", "FW_S" full-width S, "CYR_a" ...).      *)
(***************************************************************************)
EXTENDS Integers, Sequences, FiniteSets, TLC

VARIABLES
  pc,       \* "idle": no call yet; "call": a call is in flight; "done": it returned
  op,       \* the operation called
  arg,      \* its arguments
  env,      \* what the call meets: the clock's reading and how each PowerShell run ends
  ret,      \* its outcome: a value returned or an error thrown
  trace,    \* what the call did, in order: validations and PowerShell spawns
  queried   \* every log name interpolated into a spawned script so far

vars == <<pc, op, arg, env, ret, trace, queried>>

---------------------------------------------------------------------------
(* Code units and the string primitives of the language                    *)

LowerLetters == <<"a","b","c","d","e","f","g","h","i","j","k","l","m","n","o","p","q","r","s","t","u","v","w","x","y","z">>
UpperLetters == <<"A","B","C","D","E","F","G","H","I","J","K","L","M","N","O","P","Q","R","S","T","U","V","W","X","Y","Z">>
DigitChars == <<"0","1","2","3","4","5","6","7","8","9">>

Range(s) == {s[i] : i \in DOMAIN s}

Lowers == Range(LowerLetters)
Uppers == Range(UpperLetters)
Digits == Range(DigitChars)

\* \w of a RegExp without the u flag
WordChars == Lowers \cup Uppers \cup Digits \cup {"_"}

\* WhiteSpace and LineTerminator code units: what trim() strips and \s matches
WhiteSpace == {" ", "\t", "\n", "\r", "NBSP"}

UpperOf == [c \in Lowers |-> UpperLetters[CHOOSE i \in 1..26 : LowerLetters[i] = c]]
LowerOf == [c \in Uppers |-> LowerLetters[CHOOSE i \in 1..26 : UpperLetters[i] = c]]

toUpperCaseChar(c) == IF c \in Lowers THEN UpperOf[c] ELSE c
toLowerCaseChar(c) == IF c \in Uppers THEN LowerOf[c] ELSE c

toUpperCase(s) == [i \in DOMAIN s |-> toUpperCaseChar(s[i])]
toLowerCase(s) == [i \in DOMAIN s |-> toLowerCaseChar(s[i])]

\* Array.prototype.includes / String.prototype.includes
ArrayIncludes(a, x) == \E i \in DOMAIN a : a[i] = x

StringIncludes(s, p) ==
  \E i \in 0..(Len(s) - Len(p)) : SubSeq(s, i + 1, i + Len(p)) = p

RECURSIVE TrimStart(_)
TrimStart(s) ==
  IF Len(s) > 0 /\ s[1] \in WhiteSpace THEN TrimStart(Tail(s)) ELSE s

RECURSIVE TrimEnd(_)
TrimEnd(s) ==
  IF Len(s) > 0 /\ s[Len(s)] \in WhiteSpace
    THEN TrimEnd(SubSeq(s, 1, Len(s) - 1))
    ELSE s

\* String.prototype.trim
trim(s) == TrimEnd(TrimStart(s))

RECURSIVE Join(_, _)
Join(parts, sep) ==
  IF Len(parts) = 0 THEN <<>>
  ELSE IF Len(parts) = 1 THEN parts[1]
  ELSE parts[1] \o sep \o Join(Tail(parts), sep)

\* String.prototype.repeat
Repeat(s, n) ==
  IF n <= 0 \/ Len(s) = 0 THEN <<>>
  ELSE [i \in 1..(n * Len(s)) |-> s[((i - 1) % Len(s)) + 1]]

RECURSIVE DecimalDigits(_)
DecimalDigits(n) ==
  IF n < 10 THEN <<DigitChars[n + 1]>>
  ELSE DecimalDigits(n \div 10) \o <<DigitChars[(n % 10) + 1]>>

\* String(n) / template interpolation of an integer
NumberToString(n) == IF n < 0 THEN <<"-">> \o DecimalDigits(-n) ELSE DecimalDigits(n)

Min(a, b) == IF a < b THEN a ELSE b
Max(a, b) == IF a > b THEN a ELSE b

---------------------------------------------------------------------------
(* Values of type unknown, and the outcome of a call                       *)

Str(s) == [t |-> "string", s |-> s, n |-> 0]
Num(n) == [t |-> "number", s |-> <<>>, n |-> n]
Null == [t |-> "null", s |-> <<>>, n |-> 0]
Undefined == [t |-> "undefined", s |-> <<>>, n |-> 0]
Obj == [t |-> "object", s |-> <<>>, n |-> 0]

\* String(value)
JsString(v) ==
  CASE v.t = "string" -> v.s
    [] v.t = "number" -> NumberToString(v.n)
    [] v.t = "null" -> <<"n","u","l","l">>
    [] v.t = "undefined" -> <<"u","n","d","e","f","i","n","e","d">>
    [] OTHER -> <<"[","o","b","j","e","c","t"," ","O","b","j","e","c","t","]">>

Return(v) ==
  [ok |-> TRUE, val |-> v, err |-> "", code |-> "", msg |-> "", details |-> <<>>]
Throw(err, code, msg, details) ==
  [ok |-> FALSE, val |-> Undefined, err |-> err, code |-> code, msg |-> msg,
   details |-> details]

---------------------------------------------------------------------------
(* types.ts                                                                *)

System == <<"S","y","s","t","e","m">>
Application == <<"A","p","p","l","i","c","a","t","i","o","n">>

ALLOWED_CHANNELS == <<System, Application>>

DEFAULT_CONFIG ==
  [maxEventsPerQuery |-> 1000, maxTimeRangeHours |-> 168,
   queryTimeoutMs |-> 30000, xpathMaxLength |-> 500]

---------------------------------------------------------------------------
(* security/channel-guard.ts                                               *)

\* details: the offending input as interpolated into the message, and the
\* error's own copy of the allowlist
ChannelNotAllowedError(channel) ==
  Throw("ChannelNotAllowedError", "CHANNEL_NOT_ALLOWED", "not in the allowed list",
        <<channel>> \o ALLOWED_CHANNELS)

\* a guard that lets every non-empty string through
validateChannel_anyString(channel) ==
  IF channel.t # "string" THEN ChannelNotAllowedError(JsString(channel))
  ELSE IF Len(channel.s) = 0 THEN ChannelNotAllowedError(<<"(","e","m","p","t","y",")">>)
  ELSE Return(channel)

\* a guard that normalises before it compares: what the code must not do
validateChannel_normalising(channel) ==
  IF channel.t # "string" THEN ChannelNotAllowedError(JsString(channel))
  ELSE IF Len(channel.s) = 0 THEN ChannelNotAllowedError(<<"(","e","m","p","t","y",")">>)
  ELSE IF ~\E i \in DOMAIN ALLOWED_CHANNELS :
             toLowerCase(ALLOWED_CHANNELS[i]) = toLowerCase(trim(channel.s))
    THEN ChannelNotAllowedError(channel.s)
  ELSE Return(channel)

validateChannel(channel) ==
  IF channel.t # "string" THEN ChannelNotAllowedError(JsString(channel))
  ELSE IF Len(channel.s) = 0 THEN ChannelNotAllowedError(<<"(","e","m","p","t","y",")">>)
  ELSE IF ~ArrayIncludes(ALLOWED_CHANNELS, channel.s)
    THEN ChannelNotAllowedError(channel.s)
  ELSE Return(channel)

isChannelAllowed(channel) ==
  channel.t = "string" /\ ArrayIncludes(ALLOWED_CHANNELS, channel.s)

getAllowedChannels == [i \in DOMAIN ALLOWED_CHANNELS |-> ALLOWED_CHANNELS[i]]

---------------------------------------------------------------------------
(* security/xpath-validator.ts                                             *)

XPathValidationError(msg, details) ==
  Throw("XPathValidationError", "XPATH_INVALID", msg, details)

XPathComplexityError(msg) ==
  Throw("XPathComplexityError", "XPATH_TOO_COMPLEX", msg, <<>>)

(* A regular expression of the shapes the validator uses: an optional      *)
(* leading \b, then a sequence of elements, each a character class taken   *)
(* once or (star) any number of times; ci is the i flag.                   *)
Lit(s) == [i \in DOMAIN s |-> [set |-> {s[i]}, star |-> FALSE]]
One(set) == <<[set |-> set, star |-> FALSE]>>
Star(set) == <<[set |-> set, star |-> TRUE]>>

\* /\bNAME\s*\(/i
FunctionCallPattern(name) ==
  [wb |-> TRUE, ci |-> TRUE,
   elems |-> Lit(name) \o Star(WhiteSpace) \o Lit(<<"(">>),
   source |-> <<"\\","b">> \o name \o <<"\\","s","*","\\","(">>]

\* /\bNAME\s*::/i
AxisPattern(name) ==
  [wb |-> TRUE, ci |-> TRUE,
   elems |-> Lit(name) \o Star(WhiteSpace) \o Lit(<<":",":">>),
   source |-> <<"\\","b">> \o name \o <<"\\","s","*",":",":">>]

\* the i flag compares canonicalised code units (toUpperCase for ASCII)
CharIn_caseSensitive(c, set, ci) == c \in set

CharIn(c, set, ci) ==
  IF ci THEN \E x \in set : toUpperCaseChar(x) = toUpperCaseChar(c)
        ELSE c \in set

\* elems[k..] match s from position i on
RECURSIVE MatchAt(_, _, _, _)
MatchAt(re, k, s, i) ==
  IF k > Len(re.elems) THEN TRUE
  ELSE IF re.elems[k].star
    THEN \/ MatchAt(re, k + 1, s, i)
         \/ /\ i <= Len(s)
            /\ CharIn(s[i], re.elems[k].set, re.ci)
            /\ MatchAt(re, k, s, i + 1)
    ELSE /\ i <= Len(s)
         /\ CharIn(s[i], re.elems[k].set, re.ci)
         /\ MatchAt(re, k + 1, s, i + 1)

WordAt(s, i) == i >= 1 /\ i <= Len(s) /\ s[i] \in WordChars

\* RegExp.prototype.test of an unanchored pattern
RegExpTest(re, s) ==
  \E i \in 1..(Len(s) + 1) :
    /\ re.wb => (WordAt(s, i - 1) # WordAt(s, i))
    /\ MatchAt(re, 1, s, i)

BLOCKED_PATTERNS ==
  << FunctionCallPattern(<<"d","o","c","u","m","e","n","t">>),
     FunctionCallPattern(<<"d","o","c">>),
     FunctionCallPattern(<<"c","o","n","c","a","t">>),
     FunctionCallPattern(<<"s","t","r","i","n","g">>),
     FunctionCallPattern(<<"s","u","b","s","t","r","i","n","g">>),
     FunctionCallPattern(<<"t","r","a","n","s","l","a","t","e">>),
     FunctionCallPattern(<<"n","o","r","m","a","l","i","z","e","-","s","p","a","c","e">>),
     FunctionCallPattern(<<"c","o","n","t","a","i","n","s">>),
     FunctionCallPattern(<<"s","t","a","r","t","s","-","w","i","t","h">>),
     FunctionCallPattern(<<"s","t","r","i","n","g","-","l","e","n","g","t","h">>),
     FunctionCallPattern(<<"c","o","u","n","t">>),
     FunctionCallPattern(<<"s","u","m">>),
     FunctionCallPattern(<<"f","l","o","o","r">>),
     FunctionCallPattern(<<"c","e","i","l","i","n","g">>),
     FunctionCallPattern(<<"r","o","u","n","d">>),
     FunctionCallPattern(<<"t","r","u","e">>),
     FunctionCallPattern(<<"f","a","l","s","e">>),
     FunctionCallPattern(<<"n","o","t">>),
     FunctionCallPattern(<<"b","o","o","l","e","a","n">>),
     FunctionCallPattern(<<"n","u","m","b","e","r">>),
     FunctionCallPattern(<<"i","d">>),
     FunctionCallPattern(<<"n","a","m","e">>),
     FunctionCallPattern(<<"l","o","c","a","l","-","n","a","m","e">>),
     FunctionCallPattern(<<"n","a","m","e","s","p","a","c","e","-","u","r","i">>),
     \* /\$\w+/
     [wb |-> FALSE, ci |-> FALSE,
      elems |-> Lit(<<"$">>) \o One(WordChars) \o Star(WordChars),
      source |-> <<"\\","$","\\","w","+">>],
     AxisPattern(<<"n","a","m","e","s","p","a","c","e">>),
     AxisPattern(<<"p","r","e","c","e","d","i","n","g">>),
     AxisPattern(<<"f","o","l","l","o","w","i","n","g">>),
     AxisPattern(<<"p","r","e","c","e","d","i","n","g","-","s","i","b","l","i","n","g">>),
     AxisPattern(<<"f","o","l","l","o","w","i","n","g","-","s","i","b","l","i","n","g">>),
     AxisPattern(<<"a","n","c","e","s","t","o","r">>),
     AxisPattern(<<"d","e","s","c","e","n","d","a","n","t">>),
     AxisPattern(<<"a","n","c","e","s","t","o","r","-","o","r","-","s","e","l","f">>),
     AxisPattern(<<"d","e","s","c","e","n","d","a","n","t","-","o","r","-","s","e","l","f">>),
     \* /\.\./
     [wb |-> FALSE, ci |-> FALSE, elems |-> Lit(<<".",".">>), source |-> <<"\\",".","\\",".">>],
     FunctionCallPattern(<<"c","o","m","m","e","n","t">>),
     FunctionCallPattern(<<"p","r","o","c","e","s","s","i","n","g","-","i","n","s","t","r","u","c","t","i","o","n">>),
     FunctionCallPattern(<<"t","e","x","t">>),
     FunctionCallPattern(<<"n","o","d","e">>),
     \* /['"]\s*\]\s*\[/
     [wb |-> FALSE, ci |-> FALSE,
      elems |-> One({"'", "\""}) \o Star(WhiteSpace) \o Lit(<<"]">>)
                \o Star(WhiteSpace) \o Lit(<<"[">>),
      source |-> <<"[","'","\"","]","\\","s","*","\\","]","\\","s","*","\\","[">>],
     \* /--/
     [wb |-> FALSE, ci |-> FALSE, elems |-> Lit(<<"-","-">>), source |-> <<"-","-">>],
     \* /\/\*/
     [wb |-> FALSE, ci |-> FALSE, elems |-> Lit(<<"/","*">>), source |-> <<"\\","/","\\","*">>] >>

\* the character class of ALLOWED_STRUCTURE
ALLOWED_CHARS ==
  WhiteSpace \cup {"*", "[", "]", "/", "(", ")", "@"} \cup WordChars
    \cup {"-", ".", "=", "<", ">", "!", "'", "\"", ":"} \cup Digits \cup {","}

\* ALLOWED_STRUCTURE.test(s): /^[...]+$/
\* the whitelist without its anchors: one allowed character is enough
ALLOWED_STRUCTURE_unanchored(s) == \E i \in DOMAIN s : s[i] \in ALLOWED_CHARS

ALLOWED_STRUCTURE(s) == Len(s) >= 1 /\ \A i \in DOMAIN s : s[i] \in ALLOWED_CHARS

maxDepth == 5
maxPredicates == 10

(* The bracket loop of validateXPath over s[lo..hi], folded by halves: the  *)
(* net depth change of the segment, and the lowest and highest depth       *)
(* reached inside it relative to its start.                                *)
RECURSIVE BracketFold(_, _, _)
BracketFold(s, lo, hi) ==
  IF lo > hi THEN [sum |-> 0, low |-> 0, high |-> 0]
  ELSE IF lo = hi
    THEN LET v == IF s[lo] = "[" THEN 1 ELSE IF s[lo] = "]" THEN -1 ELSE 0
         IN [sum |-> v, low |-> Min(0, v), high |-> Max(0, v)]
  ELSE LET mid == (lo + hi) \div 2
           a == BracketFold(s, lo, mid)
           b == BracketFold(s, mid + 1, hi)
       IN [sum |-> a.sum + b.sum,
           low |-> Min(a.low, a.sum + b.low),
           high |-> Max(a.high, a.sum + b.high)]

\* the loop without its check for a depth below zero
BracketScan_noUnderflow(s) ==
  LET f == BracketFold(s, 1, Len(s))
  IN [unbalanced |-> FALSE, depth |-> f.sum, maxSeenDepth |-> f.high]

\* unbalanced: depth < 0 after some character (the throw inside the loop)
BracketScan(s) ==
  LET f == BracketFold(s, 1, Len(s))
  IN [unbalanced |-> f.low < 0, depth |-> f.sum, maxSeenDepth |-> f.high]

\* (trimmed.match(/\[/g) || []).length
PredicateCount(s) == Cardinality({i \in DOMAIN s : s[i] = "["})

\* the structure checks with limits that exclude their bound
ValidateStructure_exclusive(trimmed) ==
  IF ~ALLOWED_STRUCTURE(trimmed)
    THEN XPathValidationError("XPath contains disallowed characters", <<>>)
  ELSE LET scan == BracketScan(trimmed) IN
    IF scan.unbalanced \/ scan.depth # 0
      THEN XPathValidationError("Unbalanced brackets in XPath", <<>>)
    ELSE IF scan.maxSeenDepth >= maxDepth
      THEN XPathComplexityError("XPath exceeds maximum nesting depth")
    ELSE IF PredicateCount(trimmed) >= maxPredicates
      THEN XPathComplexityError("XPath exceeds maximum predicate count")
    ELSE Return(Str(trimmed))

\* the part of validateXPath after the blocklist
ValidateStructure(trimmed) ==
  IF ~ALLOWED_STRUCTURE(trimmed)
    THEN XPathValidationError("XPath contains disallowed characters", <<>>)
  ELSE LET scan == BracketScan(trimmed) IN
    IF scan.unbalanced \/ scan.depth # 0
      THEN XPathValidationError("Unbalanced brackets in XPath", <<>>)
    ELSE IF scan.maxSeenDepth > maxDepth
      THEN XPathComplexityError("XPath exceeds maximum nesting depth")
    ELSE IF PredicateCount(trimmed) > maxPredicates
      THEN XPathComplexityError("XPath exceeds maximum predicate count")
    ELSE Return(Str(trimmed))

Violations(trimmed) ==
  LET hit == SelectSeq(BLOCKED_PATTERNS, LAMBDA p : RegExpTest(p, trimmed))
  IN [i \in DOMAIN hit |-> hit[i].source]

\* a validator that hands back its input as given
validateXPath_returnsInput(xpath, config) ==
  IF xpath.t \in {"null", "undefined"} THEN Return(Undefined)
  ELSE IF xpath.t # "string"
    THEN XPathValidationError("XPath must be a string", <<>>)
  ELSE LET trimmed == trim(xpath.s) IN
    IF Len(trimmed) = 0 THEN Return(Undefined)
    ELSE IF Len(trimmed) > config.xpathMaxLength
      THEN XPathComplexityError("XPath exceeds maximum length")
    ELSE LET violations == Violations(trimmed) IN
      IF Len(violations) > 0
        THEN XPathValidationError("XPath contains blocked constructs", violations)
      ELSE IF ValidateStructure(trimmed).ok THEN Return(xpath)
      ELSE ValidateStructure(trimmed)

\* a validator that looks for blocked constructs before it looks at the length
validateXPath_blocklistFirst(xpath, config) ==
  IF xpath.t \in {"null", "undefined"} THEN Return(Undefined)
  ELSE IF xpath.t # "string"
    THEN XPathValidationError("XPath must be a string", <<>>)
  ELSE LET trimmed == trim(xpath.s) IN
    IF Len(trimmed) = 0 THEN Return(Undefined)
    ELSE LET violations == Violations(trimmed) IN
      IF Len(violations) > 0
        THEN XPathValidationError("XPath contains blocked constructs", violations)
      ELSE IF Len(trimmed) > config.xpathMaxLength
        THEN XPathComplexityError("XPath exceeds maximum length")
      ELSE ValidateStructure(trimmed)

validateXPath(xpath, config) ==
  IF xpath.t \in {"null", "undefined"} THEN Return(Undefined)
  ELSE IF xpath.t # "string"
    THEN XPathValidationError("XPath must be a string", <<>>)
  ELSE LET trimmed == trim(xpath.s) IN
    IF Len(trimmed) = 0 THEN Return(Undefined)
    ELSE IF Len(trimmed) > config.xpathMaxLength
      THEN XPathComplexityError("XPath exceeds maximum length")
    ELSE LET violations == Violations(trimmed) IN
      IF Len(violations) > 0
        THEN XPathValidationError("XPath contains blocked constructs", violations)
        ELSE ValidateStructure(trimmed)

\* filters.filter(f => f !== undefined && f.length > 0)
ValidFilters(filters) == SelectSeq(filters, LAMBDA f : f.t = "string" /\ Len(f.s) > 0)

\* of two or more usable filters the first is returned as it is
combineXPathFilters(filters) ==
  IF Len(ValidFilters(filters)) = 0 THEN Undefined
  ELSE IF Len(ValidFilters(filters)) = 1 THEN ValidFilters(filters)[1]
  ELSE ValidFilters(filters)[1]

---------------------------------------------------------------------------
(* Date: an instant is whole seconds since 1970-01-01T00:00:00Z plus       *)
(* milliseconds; valid = FALSE is the NaN time value.                      *)

Instant(sec, ms) == [valid |-> TRUE, sec |-> sec, ms |-> ms]
InvalidDate == [valid |-> FALSE, sec |-> 0, ms |-> 0]

\* days since 1970-01-01 of a civil date, and back (proleptic Gregorian)
DaysFromCivil(y, m, d) ==
  LET yy == IF m <= 2 THEN y - 1 ELSE y
      era == yy \div 400
      yoe == yy - era * 400
      mp == IF m > 2 THEN m - 3 ELSE m + 9
      doy == (153 * mp + 2) \div 5 + d - 1
      doe == yoe * 365 + yoe \div 4 - yoe \div 100 + doy
  IN era * 146097 + doe - 719468

CivilFromDays(days) ==
  LET z == days + 719468
      era == z \div 146097
      doe == z - era * 146097
      yoe == (doe - doe \div 1460 + doe \div 36524 - doe \div 146096) \div 365
      doy == doe - (365 * yoe + yoe \div 4 - yoe \div 100)
      mp == (5 * doy + 2) \div 153
      d == doy - (153 * mp + 2) \div 5 + 1
      m == IF mp < 10 THEN mp + 3 ELSE mp - 9
  IN [y |-> yoe + era * 400 + (IF m <= 2 THEN 1 ELSE 0), m |-> m, d |-> d]

IsDigitsAt(s, i, n) == i + n - 1 <= Len(s) /\ \A k \in i..(i + n - 1) : s[k] \in Digits

DigitValue(c) == (CHOOSE k \in 1..10 : DigitChars[k] = c) - 1

RECURSIVE DigitsValue(_, _, _)
DigitsValue(s, i, n) ==
  IF n = 0 THEN 0 ELSE DigitsValue(s, i, n - 1) * 10 + DigitValue(s[i + n - 1])

\* the zone designator at the end of a date-time string: minutes east of
\* UTC, or no zone recognised
ParseZone(z) ==
  IF z = <<"Z">> THEN [ok |-> TRUE, minutes |-> 0]
  ELSE IF /\ Len(z) = 6 /\ z[1] \in {"+", "-"} /\ IsDigitsAt(z, 2, 2)
          /\ z[4] = ":" /\ IsDigitsAt(z, 5, 2)
          /\ DigitsValue(z, 2, 2) <= 23 /\ DigitsValue(z, 5, 2) <= 59
    THEN [ok |-> TRUE,
          minutes |-> (IF z[1] = "-" THEN -1 ELSE 1)
                        * (DigitsValue(z, 2, 2) * 60 + DigitsValue(z, 5, 2))]
  ELSE [ok |-> FALSE, minutes |-> 0]

(* new Date(string) for the date-time string format with a zone,           *)
(* YYYY-MM-DDTHH:mm:ss[.fraction](Z|+HH:mm|-HH:mm); any other string is no *)
(* date here (NaN).                                                        *)
DateParse(s) ==
  IF ~(/\ Len(s) >= 20
       /\ IsDigitsAt(s, 1, 4) /\ s[5] = "-" /\ IsDigitsAt(s, 6, 2) /\ s[8] = "-"
       /\ IsDigitsAt(s, 9, 2) /\ s[11] = "T" /\ IsDigitsAt(s, 12, 2) /\ s[14] = ":"
       /\ IsDigitsAt(s, 15, 2) /\ s[17] = ":" /\ IsDigitsAt(s, 18, 2))
    THEN InvalidDate
  ELSE
    LET y == DigitsValue(s, 1, 4)
        mo == DigitsValue(s, 6, 2)
        d == DigitsValue(s, 9, 2)
        h == DigitsValue(s, 12, 2)
        mi == DigitsValue(s, 15, 2)
        se == DigitsValue(s, 18, 2)
        fracEnd == IF s[20] = "."
                     THEN CHOOSE e \in 20..Len(s) :
                            /\ \A k \in 21..e : s[k] \in Digits
                            /\ e = Len(s) \/ s[e + 1] \notin Digits
                     ELSE 19
        nfrac == IF s[20] = "." THEN fracEnd - 20 ELSE 0
        ms == IF nfrac = 0 THEN 0
              ELSE IF nfrac = 1 THEN DigitsValue(s, 21, 1) * 100
              ELSE IF nfrac = 2 THEN DigitsValue(s, 21, 2) * 10
              ELSE DigitsValue(s, 21, 3)
        zone == ParseZone(SubSeq(s, fracEnd + 1, Len(s)))
    IN IF \/ (s[20] = "." /\ nfrac = 0) \/ ~zone.ok
          \/ mo < 1 \/ mo > 12 \/ d < 1 \/ d > 31 \/ h > 23 \/ mi > 59 \/ se > 59
         THEN InvalidDate
         ELSE Instant((DaysFromCivil(y, mo, 1) + d - 1) * 86400
                        + h * 3600 + mi * 60 + se - zone.minutes * 60, ms)

PadStart(s, n) == Repeat(<<"0">>, n - Len(s)) \o s

\* Date.prototype.toISOString
toISOString(t) ==
  LET days == t.sec \div 86400
      rem == t.sec % 86400
      c == CivilFromDays(days)
  IN PadStart(NumberToString(c.y), 4) \o <<"-">> \o PadStart(NumberToString(c.m), 2)
       \o <<"-">> \o PadStart(NumberToString(c.d), 2) \o <<"T">>
       \o PadStart(NumberToString(rem \div 3600), 2) \o <<":">>
       \o PadStart(NumberToString((rem % 3600) \div 60), 2) \o <<":">>
       \o PadStart(NumberToString(rem % 60), 2) \o <<".">>
       \o PadStart(NumberToString(t.ms), 3) \o <<"Z">>

\* a.getTime() - b.getTime() as a sign; NaN compares as 0
TimeDiffSign(a, b) ==
  IF ~a.valid \/ ~b.valid THEN 0
  ELSE IF a.sec # b.sec THEN (IF a.sec > b.sec THEN 1 ELSE -1)
  ELSE IF a.ms # b.ms THEN (IF a.ms > b.ms THEN 1 ELSE -1)
  ELSE 0

\* truthiness of a value
Truthy(v) ==
  \/ v.t = "string" /\ Len(v.s) > 0
  \/ v.t = "number" /\ v.n # 0
  \/ v.t = "object"

Nullish(v) == v.t \in {"null", "undefined"}

---------------------------------------------------------------------------
(* eventlog/powershell-reader.ts                                           *)

mapLevel(level, displayName) ==
  LET normalized == toLowerCase(displayName.s) IN
  IF Truthy(displayName) /\ normalized = <<"c","r","i","t","i","c","a","l">> THEN "Critical"
  ELSE IF Truthy(displayName) /\ normalized = <<"e","r","r","o","r">> THEN "Error"
  ELSE IF Truthy(displayName) /\ normalized = <<"w","a","r","n","i","n","g">> THEN "Warning"
  ELSE IF Truthy(displayName) /\ normalized \in {<<"i","n","f","o","r","m","a","t","i","o","n">>, <<"i","n","f","o">>}
    THEN "Information"
  ELSE IF Truthy(displayName) /\ normalized = <<"v","e","r","b","o","s","e">> THEN "Verbose"
  ELSE CASE level = 1 -> "Critical"
         [] level = 2 -> "Error"
         [] level = 3 -> "Warning"
         [] level = 4 -> "Information"
         [] level = 5 -> "Verbose"
         [] OTHER -> "Information"

parseEvent(raw) ==
  [recordId |-> raw.RecordId,
   eventId |-> raw.Id,
   level |-> mapLevel(raw.Level, raw.LevelDisplayName),
   timeCreated |-> raw.TimeCreated,
   provider |-> raw.ProviderName,
   message |-> IF Truthy(raw.Message) THEN raw.Message.s ELSE <<>>,
   computer |-> raw.MachineName,
   channel |-> raw.LogName]

(* How a run of PowerShell ends, as executePowerShell reports it: resolve  *)
(* with the parsed output (json: "array", "object" or "null"), or reject   *)
(* because of the exit code, the timeout, the spawn or the parse.          *)
Resolved(json, items) == [kind |-> "resolve", json |-> json, items |-> items]
\* a rejection carries, in items, the text the collaborator gave: the child's
\* stderr, the spawn error's message or the parse error
RejectedWith(kind, text) == [kind |-> kind, json |-> "null", items |-> text]
Rejected(kind) == RejectedWith(kind, <<>>)

\* the four errors of executePowerShell; details is the text interpolated
\* into the message after the fixed part
ExitError(stderr) == Throw("Error", "", "PowerShell exited with code", stderr)
TimeoutError == Throw("Error", "", "PowerShell command timed out", <<>>)
SpawnError(message) == Throw("Error", "", "Failed to spawn PowerShell", message)
ParseError(text) == Throw("Error", "", "Failed to parse PowerShell output", text)

executePowerShell(script, timeoutMs, outcome) ==
  CASE outcome.kind = "resolve" -> Return([json |-> outcome.json, items |-> outcome.items])
    [] outcome.kind = "exit" -> ExitError(outcome.items)
    [] outcome.kind = "timeout" -> TimeoutError
    [] outcome.kind = "spawn" -> SpawnError(outcome.items)
    [] OTHER -> ParseError(outcome.items)

RECURSIVE EscapeRange(_, _, _)
EscapeRange(str, lo, hi) ==
  IF lo > hi THEN <<>>
  ELSE IF lo = hi THEN (IF str[lo] = "'" THEN <<"'","'">> ELSE <<str[lo]>>)
  ELSE LET mid == (lo + hi) \div 2
       IN EscapeRange(str, lo, mid) \o EscapeRange(str, mid + 1, hi)

\* str.replace(/'/g, "''")
escapePowerShellString(str) == EscapeRange(str, 1, Len(str))

\* what a call did: a channel validation that passed, or a spawn of a script
NoScript ==
  [cmd |-> "", logName |-> <<>>, maxEvents |-> 0, filterXPath |-> Undefined,
   startTime |-> <<>>, endTime |-> <<>>, recordId |-> 0, timeoutMs |-> 0]

ChannelValidated(channel) ==
  [ev |-> "validateChannel", logName |-> channel, script |-> NoScript]

Spawned(script) == [ev |-> "spawn", logName |-> script.logName, script |-> script]

\* the text PowerShell reads back from a single-quoted literal
RECURSIVE UnescapeRange(_, _)
UnescapeRange(str, i) ==
  IF i > Len(str) THEN <<>>
  ELSE IF str[i] = "'" /\ i < Len(str) /\ str[i + 1] = "'"
    THEN <<"'">> \o UnescapeRange(str, i + 2)
    ELSE <<str[i]>> \o UnescapeRange(str, i + 1)

\* Math.min(Math.max(1, options.maxEvents ?? 100), config.maxEventsPerQuery)
ClampMaxEvents_noFloor(requested, config) ==
  Min(IF Nullish(requested) THEN 100 ELSE requested.n, config.maxEventsPerQuery)

ClampMaxEvents(requested, config) ==
  Min(Max(1, IF Nullish(requested) THEN 100 ELSE requested.n), config.maxEventsPerQuery)

\* Math.min(Math.max(1, options.hours ?? 24), config.maxTimeRangeHours)
ClampHours(requested, config) ==
  Min(Max(1, IF Nullish(requested) THEN 24 ELSE requested.n), config.maxTimeRangeHours)

NoOptions ==
  [xpath |-> Undefined, startTime |-> Undefined, endTime |-> Undefined,
   maxEvents |-> Undefined]

\* the script of a query, by the parts the code puts into it
QueryScript(validChannel, validXPath, startDate, endDate, options, config) ==
  [cmd |-> "Get-WinEvent -FilterHashtable",
   logName |-> escapePowerShellString(validChannel),
   maxEvents |-> ClampMaxEvents(options.maxEvents, config),
   filterXPath |-> IF Truthy(validXPath) THEN Str(escapePowerShellString(validXPath.s))
                   ELSE Undefined,
   startTime |-> IF Truthy(options.startTime) THEN toISOString(startDate) ELSE <<>>,
   endTime |-> IF Truthy(options.endTime) THEN toISOString(endDate) ELSE <<>>,
   recordId |-> 0,
   timeoutMs |-> config.queryTimeoutMs]

\* Array.isArray(rawEvents) ? rawEvents : (rawEvents ? [rawEvents] : [])
EventsArray(rawEvents) ==
  IF rawEvents.json = "array" THEN rawEvents.items
  ELSE IF rawEvents.json = "object" THEN <<rawEvents.items[1]>>
  ELSE <<>>

\* eventsArray.map(parseEvent)
ParseEvents(eventsArray) == [i \in DOMAIN eventsArray |-> parseEvent(eventsArray[i])]

\* queryEvents from the result of executePowerShell on
QueryResult(did, rawEvents) ==
  IF ~rawEvents.ok THEN [ret |-> rawEvents, trace |-> did]
  ELSE [ret |-> Return(ParseEvents(EventsArray(rawEvents.val))), trace |-> did]

\* queryEvents from the spawn on
QueryRun(validChannel, script, config, outcome) ==
  QueryResult(<<ChannelValidated(validChannel), Spawned(script)>>,
              executePowerShell(script, config.queryTimeoutMs, outcome))

\* queryEvents from the checks of the parsed times on
QueryWindow(validChannel, validXPath, startDate, endDate, options, config, outcome) ==
  IF Truthy(options.startTime) /\ ~startDate.valid
    THEN [ret |-> Throw("Error", "", "Invalid startTime format", <<>>),
          trace |-> <<ChannelValidated(validChannel)>>]
  ELSE IF Truthy(options.endTime) /\ ~endDate.valid
    THEN [ret |-> Throw("Error", "", "Invalid endTime format", <<>>),
          trace |-> <<ChannelValidated(validChannel)>>]
  ELSE QueryRun(validChannel,
                QueryScript(validChannel, validXPath, startDate, endDate, options, config),
                config, outcome)

\* queryEvents from the outcome of validateXPath on
QueryFilter(validChannel, validXPath, options, config, outcome) ==
  IF ~validXPath.ok THEN [ret |-> validXPath, trace |-> <<ChannelValidated(validChannel)>>]
  ELSE QueryWindow(validChannel, validXPath.val,
                   DateParse(JsString(options.startTime)),
                   DateParse(JsString(options.endTime)),
                   options, config, outcome)

\* queryEvents from the outcome of validateChannel on
QueryChannel(validChannel, options, config, outcome) ==
  IF ~validChannel.ok THEN [ret |-> validChannel, trace |-> <<>>]
  ELSE QueryFilter(validChannel.val.s, validateXPath(options.xpath, config),
                   options, config, outcome)

queryEvents(channel, options, config, outcome) ==
  QueryChannel(validateChannel(channel), options, config, outcome)

GetEventScript(validChannel, recordId, config) ==
  [NoScript EXCEPT !.cmd = "Get-WinEvent | Where-Object RecordId",
                   !.logName = escapePowerShellString(validChannel),
                   !.maxEvents = 1000,
                   !.recordId = recordId.n,
                   !.timeoutMs = config.queryTimeoutMs]

\* getEvent from the result of executePowerShell on
GetEventResult(did, raw) ==
  IF ~raw.ok THEN [ret |-> raw, trace |-> did]
  ELSE IF raw.val.json = "null" THEN [ret |-> Return(Undefined), trace |-> did]
  ELSE IF raw.val.json = "object"
    THEN [ret |-> Return(parseEvent(raw.val.items[1])), trace |-> did]
  \* an array (the empty output) is truthy: parseEvent reads undefined fields
  ELSE [ret |-> Return(Obj), trace |-> did]

GetEventRun(validChannel, script, config, outcome) ==
  GetEventResult(<<ChannelValidated(validChannel), Spawned(script)>>,
                 executePowerShell(script, config.queryTimeoutMs, outcome))

\* getEvent from the outcome of validateChannel on
GetEventChannel(validChannel, recordId, config, outcome) ==
  IF ~validChannel.ok THEN [ret |-> validChannel, trace |-> <<>>]
  \* Number.isInteger(recordId) && recordId >= 0
  ELSE IF recordId.t # "number" \/ recordId.n < 0
    THEN [ret |-> Throw("Error", "", "recordId must be a non-negative integer", <<>>),
          trace |-> <<ChannelValidated(validChannel.val.s)>>]
  ELSE GetEventRun(validChannel.val.s,
                   GetEventScript(validChannel.val.s, recordId, config), config, outcome)

getEvent(channel, recordId, config, outcome) ==
  GetEventChannel(validateChannel(channel), recordId, config, outcome)

NoChannelInfo(channel) == [name |-> channel, enabled |-> FALSE, recordCount |-> 0]

ChannelInfoScript(validChannel, config) ==
  [NoScript EXCEPT !.cmd = "Get-WinEvent -ListLog",
                   !.logName = escapePowerShellString(validChannel),
                   !.timeoutMs = config.queryTimeoutMs]

\* getChannelInfo from the result of executePowerShell on
ChannelInfoResult(did, raw) ==
  IF ~raw.ok THEN [ret |-> raw, trace |-> did]
  \* reading a property of null throws a TypeError
  ELSE IF raw.val.json = "null"
    THEN [ret |-> Throw("TypeError", "", "Cannot read properties of null", <<>>),
          trace |-> did]
  ELSE IF raw.val.json = "object"
    THEN [ret |-> Return([name |-> raw.val.items[1].LogName,
                          enabled |-> raw.val.items[1].IsEnabled,
                          recordCount |-> raw.val.items[1].RecordCount]),
          trace |-> did]
  \* an array has none of the properties: all undefined, recordCount ?? 0
  ELSE [ret |-> Return([name |-> <<>>, enabled |-> FALSE, recordCount |-> 0]),
        trace |-> did]

ChannelInfoRun(validChannel, script, config, outcome) ==
  ChannelInfoResult(<<ChannelValidated(validChannel), Spawned(script)>>,
                    executePowerShell(script, config.queryTimeoutMs, outcome))

\* getChannelInfo from the outcome of validateChannel on
ChannelInfoChannel(validChannel, config, outcome) ==
  IF ~validChannel.ok THEN [ret |-> validChannel, trace |-> <<>>]
  ELSE ChannelInfoRun(validChannel.val.s, ChannelInfoScript(validChannel.val.s, config),
                      config, outcome)

getChannelInfo(channel, config, outcome) ==
  ChannelInfoChannel(validateChannel(channel), config, outcome)

\* the body of the loop of listChannels: try the channel, or push its placeholder
\* a loop that leaves out the channel it could not read
ListPush_omitsFailed(acc, name, info) ==
  [ret |-> Return(acc.ret.val \o (IF info.ret.ok THEN <<info.ret.val>> ELSE <<>>)),
   trace |-> acc.trace \o info.trace]

ListPush(acc, name, info) ==
  [ret |-> Return(acc.ret.val \o
                    <<IF info.ret.ok THEN info.ret.val ELSE NoChannelInfo(name)>>),
   trace |-> acc.trace \o info.trace]

RECURSIVE ListLoop(_, _, _, _, _)
ListLoop(names, i, config, outcomes, acc) ==
  IF i > Len(names) THEN acc
  ELSE ListLoop(names, i + 1, config, outcomes,
                ListPush(acc, names[i],
                         getChannelInfo(Str(names[i]), config, outcomes[i])))

listChannels(config, outcomes) ==
  ListLoop(<<System, Application>>, 1, config, outcomes,
           [ret |-> Return(<<>>), trace |-> <<>>])

\* Object.entries(CRASH_PATTERNS), in declaration order
CRASH_PATTERNS ==
  << [name |-> "ApplicationCrash",
      providers |-> <<<<"A","p","p","l","i","c","a","t","i","o","n"," ","E","r","r","o","r">>, <<"W","i","n","d","o","w","s"," ","E","r","r","o","r"," ","R","e","p","o","r","t","i","n","g">>>>,
      eventIds |-> <<1000, 1001>>],
     [name |-> "ApplicationHang",
      providers |-> <<<<"A","p","p","l","i","c","a","t","i","o","n"," ","H","a","n","g">>>>,
      eventIds |-> <<1002>>],
     [name |-> "SystemCrash",
      providers |-> <<<<"M","i","c","r","o","s","o","f","t","-","W","i","n","d","o","w","s","-","W","E","R","-","S","y","s","t","e","m","E","r","r","o","r","R","e","p","o","r","t","i","n","g">>, <<"B","u","g","C","h","e","c","k">>>>,
      eventIds |-> <<1001, 1>>],
     [name |-> "ServiceFailure",
      providers |-> <<<<"S","e","r","v","i","c","e"," ","C","o","n","t","r","o","l"," ","M","a","n","a","g","e","r">>>>,
      eventIds |-> <<7031, 7034, 7024>>],
     [name |-> "WHEA",
      providers |-> <<<<"M","i","c","r","o","s","o","f","t","-","W","i","n","d","o","w","s","-","W","H","E","A","-","L","o","g","g","e","r">>>>,
      eventIds |-> <<17, 18, 19, 47>>] >>

\* eventIdFilters: one "EventID=n" per event id of every pattern
RECURSIVE EventIdFilters(_)
EventIdFilters(k) ==
  IF k > Len(CRASH_PATTERNS) THEN <<>>
  ELSE [i \in DOMAIN CRASH_PATTERNS[k].eventIds |->
          <<"E","v","e","n","t","I","D","=">> \o NumberToString(CRASH_PATTERNS[k].eventIds[i])]
       \o EventIdFilters(k + 1)

\* a filter that states the time lower bound as a negated upper bound
CrashXPath_negatedBound(startTime) ==
  <<"*","[","S","y","s","t","e","m","[","(">> \o Join(EventIdFilters(1), <<" ","o","r"," ">>)
    \o <<")"," ","a","n","d"," ","n","o","t","(","T","i","m","e","C","r","e","a","t","e","d","[","@","S","y","s","t","e","m","T","i","m","e","<","'">> \o startTime \o <<"'","]",")","]","]">>

CrashXPath(startTime) ==
  <<"*","[","S","y","s","t","e","m","[","(">> \o Join(EventIdFilters(1), <<" ","o","r"," ">>)
    \o <<")"," ","a","n","d"," ","T","i","m","e","C","r","e","a","t","e","d","[","@","S","y","s","t","e","m","T","i","m","e",">","=","'">> \o startTime \o <<"'","]","]","]">>

PatternMatches(pattern, event) ==
  LET providerMatch ==
        \E i \in DOMAIN pattern.providers :
          StringIncludes(toLowerCase(event.provider), toLowerCase(pattern.providers[i]))
      eventIdMatch == ArrayIncludes(pattern.eventIds, event.eventId)
  IN providerMatch \/ eventIdMatch

\* a severity mapping that forgets the hardware pattern
Severity_withoutWHEA(crashType) ==
  IF crashType = "SystemCrash" THEN "Critical"
  ELSE IF crashType = "ApplicationCrash" \/ crashType = "ServiceFailure" THEN "High"
  ELSE "Medium"

Severity(crashType) ==
  IF crashType = "SystemCrash" \/ crashType = "WHEA" THEN "Critical"
  ELSE IF crashType = "ApplicationCrash" \/ crashType = "ServiceFailure" THEN "High"
  ELSE "Medium"

(* message.match(/LABEL\s*([^\r\n,]+)/i), capture 1 trimmed: the leftmost  *)
(* occurrence of the label that a capture can follow; \s* takes as much    *)
(* whitespace as leaves the capture one character; <<>> for no match.      *)
ExtractAfter(label, message) ==
  LET stops == {"\r", "\n", ","}
      starts == {i \in 1..(Len(message) - Len(label) + 1) :
                   toLowerCase(SubSeq(message, i, i + Len(label) - 1)) = toLowerCase(label)}
      \* where the capture may begin after the label at i
      begins(i) == {p \in (i + Len(label))..Len(message) :
                      /\ \A m \in (i + Len(label))..(p - 1) : message[m] \in WhiteSpace
                      /\ message[p] \notin stops}
      hits == {i \in starts : begins(i) # {}}
  IN IF hits = {} THEN [found |-> FALSE, text |-> <<>>]
     ELSE LET i == CHOOSE i \in hits : \A j \in hits : i <= j
              p == CHOOSE p \in begins(i) : \A q \in begins(i) : p >= q
              e == CHOOSE e \in p..Len(message) :
                     /\ \A m \in p..e : message[m] \notin stops
                     /\ e = Len(message) \/ message[e + 1] \in stops
          IN [found |-> TRUE, text |-> trim(SubSeq(message, p, e))]

CrashSignal(event, crashType) ==
  [event |-> event,
   crashType |-> crashType,
   severity |-> Severity(crashType),
   faultingApplication |-> ExtractAfter(<<"F","a","u","l","t","i","n","g"," ","a","p","p","l","i","c","a","t","i","o","n"," ","n","a","m","e",":">>, event.message),
   faultingModule |-> ExtractAfter(<<"F","a","u","l","t","i","n","g"," ","m","o","d","u","l","e"," ","n","a","m","e",":">>, event.message)]

\* the loop over the patterns without its break: one signal per match
ClassifyEvent_noBreak(event) ==
  LET matching == SelectSeq(CRASH_PATTERNS, LAMBDA p : PatternMatches(p, event))
  IN [i \in DOMAIN matching |-> CrashSignal(event, matching[i].name)]

\* the loop over the patterns for one event: the signals it pushes
ClassifyEvent(event) ==
  LET matching == SelectSeq(CRASH_PATTERNS, LAMBDA p : PatternMatches(p, event))
  IN IF Len(matching) = 0 THEN <<>>
     ELSE <<CrashSignal(event, matching[1].name)>>

RECURSIVE ClassifyAll(_)
ClassifyAll(events) ==
  IF Len(events) = 0 THEN <<>>
  ELSE ClassifyEvent(Head(events)) \o ClassifyAll(Tail(events))

\* a comparator that puts the oldest first
CompareCrashes_oldestFirst(a, b) ==
  TimeDiffSign(DateParse(a.event.timeCreated), DateParse(b.event.timeCreated))

\* the comparator of the final sort: b's time minus a's
CompareCrashes(a, b) ==
  TimeDiffSign(DateParse(b.event.timeCreated), DateParse(a.event.timeCreated))

\* x put into the sorted sequence s after every element not ordered after it
RECURSIVE InsertSorted(_, _)
InsertSorted(s, x) ==
  IF Len(s) = 0 THEN <<x>>
  ELSE IF CompareCrashes(s[Len(s)], x) <= 0 THEN Append(s, x)
  ELSE Append(InsertSorted(SubSeq(s, 1, Len(s) - 1), x), s[Len(s)])

\* Array.prototype.sort with CompareCrashes (a stable sort)
RECURSIVE SortCrashes(_)
SortCrashes(crashes) ==
  IF Len(crashes) = 0 THEN <<>>
  ELSE InsertSorted(SortCrashes(SubSeq(crashes, 1, Len(crashes) - 1)),
                    crashes[Len(crashes)])

\* a scan that loses what it has found when a channel's query fails
CrashesAfter_lostOnFailure(crashes, q) ==
  IF q.ret.ok THEN crashes \o ClassifyAll(q.ret.val) ELSE <<>>

\* the crashes after one channel's query: its signals added, or none if it failed
CrashesAfter(crashes, q) ==
  IF q.ret.ok THEN crashes \o ClassifyAll(q.ret.val) ELSE crashes

RECURSIVE ScanChannels(_, _, _, _, _, _, _)

\* the body of the loop for the i-th channel, from its query's outcome on
ScanQueried(channels, i, xpath, config, outcomes, crashes, did, q) ==
  ScanChannels(channels, i + 1, xpath, config, outcomes, CrashesAfter(crashes, q),
               did \o q.trace)

\* a loop body whose channel check sits inside the per-channel try block:
\* a refused channel is logged and skipped
ScanValidated_insideTry(channels, i, xpath, config, outcomes, crashes, did, valid) ==
  IF ~valid.ok THEN ScanChannels(channels, i + 1, xpath, config, outcomes, crashes, did)
  ELSE ScanQueried(channels, i, xpath, config, outcomes, crashes,
                   Append(did, ChannelValidated(valid.val.s)),
                   queryEvents(channels[i],
                               [NoOptions EXCEPT !.xpath = Str(xpath),
                                                 !.maxEvents = Num(200)],
                               config, outcomes[i]))

\* the body of the loop for the i-th channel, from its validation on
ScanValidated(channels, i, xpath, config, outcomes, crashes, did, valid) ==
  IF ~valid.ok THEN [ret |-> valid, trace |-> did]
  ELSE ScanQueried(channels, i, xpath, config, outcomes, crashes,
                   Append(did, ChannelValidated(valid.val.s)),
                   queryEvents(channels[i],
                               [NoOptions EXCEPT !.xpath = Str(xpath),
                                                 !.maxEvents = Num(200)],
                               config, outcomes[i]))

\* the loop over the channels from the i-th on
ScanChannels(channels, i, xpath, config, outcomes, crashes, did) ==
  IF i > Len(channels) THEN [ret |-> Return(SortCrashes(crashes)), trace |-> did]
  ELSE ScanValidated(channels, i, xpath, config, outcomes, crashes, did,
                     validateChannel(channels[i]))

\* new Date(Date.now() - hours * 60 * 60 * 1000).toISOString()
ScanStartTime(now, hours) == toISOString(Instant(now.sec - hours * 60 * 60, now.ms))

\* now is the value Date.now() returns during the call
findCrashSignals(options, config, now, outcomes) ==
  ScanChannels(IF options.channels.given THEN options.channels.list
               ELSE <<Str(System), Str(Application)>>,
               1, CrashXPath(ScanStartTime(now, ClampHours(options.hours, config))),
               config, outcomes, <<>>, <<>>)

----------------------------------------------------------------------------
(* executePowerShell step by step: the child process, the timer and the    *)
(* promise. env holds the child (ps: "none", "running", "exited", "killed" *)
(* or "failed" when it could not be started), what it still has to write   *)
(* (left), what was read so far, the timer and the number of spawns; the   *)
(* promise is pending while pc = "await" and settled, with ret, at "done". *)

\* JSON.parse on the outputs the child writes
JSONParse(text) ==
  CASE trim(text) = <<"[","]">> -> Return([json |-> "array", items |-> <<>>])
    [] trim(text) = <<"{","}">> -> Return([json |-> "object", items |-> <<>>])
    [] trim(text) = <<"n","u","l","l">> -> Return([json |-> "null", items |-> <<>>])
    [] OTHER -> Throw("SyntaxError", "", "Unexpected token", <<>>)

\* a promise keeps its first settlement
Settle_lastWins(settled, current, outcome) == outcome

Settle(settled, current, outcome) == IF settled THEN current ELSE outcome

\* a 'close' handler that does not look at the exit code
CloseOutcome_ignoresCode(code, stdout, stderr) ==
  IF trim(stdout) = <<>> THEN Return([json |-> "array", items |-> <<>>])
  ELSE IF JSONParse(stdout).ok THEN JSONParse(stdout)
  ELSE ParseError(<<"S","y","n","t","a","x","E","r","r","o","r">>)

\* the 'close' handler's verdict on the exit code and the output read
CloseOutcome(code, stdout, stderr) ==
  IF code # 0 THEN ExitError(stderr)
  ELSE IF trim(stdout) = <<>> THEN Return([json |-> "array", items |-> <<>>])
  ELSE IF JSONParse(stdout).ok THEN JSONParse(stdout)
  ELSE ParseError(<<"S","y","n","t","a","x","E","r","r","o","r">>)

NoProcess(plan) ==
  [plan |-> plan, ps |-> "none", left |-> plan.chunks, stdout |-> <<>>,
   stderr |-> <<>>, timer |-> "none", closed |-> FALSE, spawned |-> 0]

\* spawn('powershell.exe', ..., {timeout}) and setTimeout(..., timeoutMs)
PsSpawn ==
  /\ pc = "call"
  /\ op = "executePowerShell"
  /\ pc' = "await"
  /\ env' = [env EXCEPT !.ps = IF env.plan.kind = "fails" THEN "failed" ELSE "running",
                        !.timer = "armed",
                        !.spawned = @ + 1]
  /\ trace' = Append(trace, Spawned(arg.script))
  /\ UNCHANGED <<op, arg, ret, queried>>

\* ps.stdout.on('data') and ps.stderr.on('data')
PsData ==
  /\ op = "executePowerShell"
  /\ env.ps = "running"
  /\ env.left # <<>>
  /\ env' = [env EXCEPT !.left = Tail(@),
                        !.stdout = IF Head(env.left).fd = "stdout"
                                   THEN @ \o Head(env.left).text ELSE @,
                        !.stderr = IF Head(env.left).fd = "stderr"
                                   THEN @ \o Head(env.left).text ELSE @]
  /\ UNCHANGED <<pc, op, arg, ret, trace, queried>>

\* the child ends by itself once it has written its output
PsExit ==
  /\ op = "executePowerShell"
  /\ env.ps = "running"
  /\ env.plan.kind = "exits"
  /\ env.left = <<>>
  /\ env' = [env EXCEPT !.ps = "exited"]
  /\ UNCHANGED <<pc, op, arg, ret, trace, queried>>

\* timeoutMs elapses: the timer of spawn's timeout option kills the child,
\* then the timer callback calls ps.kill and rejects (a child that could
\* not be started reports 'error' on the next tick, before any timer)
PsTimeout ==
  /\ op = "executePowerShell"
  /\ env.timer = "armed"
  /\ env.ps # "failed"
  /\ env' = [env EXCEPT !.timer = "fired",
                        !.ps = IF @ = "running" THEN "killed" ELSE @]
  /\ pc' = "done"
  /\ ret' = Settle(pc = "done", ret, TimeoutError)
  /\ UNCHANGED <<op, arg, trace, queried>>

\* the timer of spawn's timeout option kills the child a moment before the
\* timer callback is due: the child may close in between
PsKill ==
  /\ op = "executePowerShell"
  /\ env.timer = "armed"
  /\ env.ps = "running"
  /\ env' = [env EXCEPT !.ps = "killed"]
  /\ UNCHANGED <<pc, op, arg, ret, trace, queried>>

\* ps.on('close'): a killed child closes with code null
PsClose ==
  /\ op = "executePowerShell"
  /\ env.ps \in {"exited", "killed", "failed"}
  /\ env.ps = "failed" => env.timer = "cleared"
  /\ ~env.closed
  /\ env' = [env EXCEPT !.closed = TRUE,
                        !.timer = IF @ = "armed" THEN "cleared" ELSE @]
  /\ pc' = "done"
  /\ ret' = Settle(pc = "done", ret,
                   CloseOutcome(IF env.ps = "exited" THEN env.plan.code ELSE -1,
                                env.stdout, env.stderr))
  /\ UNCHANGED <<op, arg, trace, queried>>

\* ps.on('error'): the child could not be started
PsError ==
  /\ op = "executePowerShell"
  /\ env.ps = "failed"
  /\ env.timer # "cleared"
  /\ env' = [env EXCEPT !.timer = "cleared"]
  /\ pc' = "done"
  /\ ret' = Settle(pc = "done", ret, SpawnError(env.plan.message))
  /\ UNCHANGED <<op, arg, trace, queried>>
----------------------------------------------------------------------------
(* The audit logger, the tools and the server's CallTool handler           *)

\* the channels option of findCrashSignals, which may be left out
Given(list) == [given |-> TRUE, list |-> list]
NotGiven == [given |-> FALSE, list |-> <<>>]

\* an entry of the audit file, kept in the order of events of the call
AuditEntry(event, tool) ==
  [ev |-> event, logName |-> <<>>, script |-> [NoScript EXCEPT !.cmd = tool]]

\* logAudit: the entry reaches the file unless appendFile fails, which is
\* caught and reported on stderr only
logAudit(audit, event, tool) ==
  IF audit = "ok" THEN <<AuditEntry(event, tool)>> ELSE <<>>

\* withAudit around a handler that gave run = [ret, trace]: a failed mkdir
\* rejects initialize, so logToolCall throws before the handler is entered
withAudit(tool, run, audit) ==
  IF audit = "mkdirFails"
    THEN [ret |-> Throw("Error", "EACCES", "mkdir", <<>>), trace |-> <<>>]
  ELSE [ret |-> run.ret,
        trace |-> logAudit(audit, "tool_call", tool) \o run.trace
                    \o logAudit(audit, IF run.ret.ok THEN "tool_success" ELSE "tool_error",
                                tool)]

\* zod: the issue a schema raises on one key
ZodIssue(path, code) == [path |-> path, code |-> code]

ZodEnum(path, v) ==
  IF v.t = "string" /\ ArrayIncludes(ALLOWED_CHANNELS, v.s) THEN <<>>
  ELSE IF v.t = "string" THEN <<ZodIssue(path, "invalid_enum_value")>>
  ELSE <<ZodIssue(path, "invalid_type")>>

ZodOptionalString(path, v) ==
  IF v.t \in {"undefined", "string"} THEN <<>> ELSE <<ZodIssue(path, "invalid_type")>>

ZodNumber(path, v, lo, hi) ==
  IF v.t # "number" THEN <<ZodIssue(path, "invalid_type")>>
  ELSE IF v.n < lo THEN <<ZodIssue(path, "too_small")>>
  ELSE IF v.n > hi THEN <<ZodIssue(path, "too_big")>>
  ELSE <<>>

ZodOptionalNumber(path, v, lo, hi) ==
  IF v.t = "undefined" THEN <<>> ELSE ZodNumber(path, v, lo, hi)

ZodParse(params, issues) ==
  IF issues = <<>> THEN Return(params) ELSE Throw("ZodError", "", "ZodError", issues)

ListChannelsInput(params) == ZodParse(params, <<>>)

QueryEventsInput(params) ==
  ZodParse(params,
           ZodEnum("channel", params.channel) \o ZodOptionalString("xpath", params.xpath)
             \o ZodOptionalString("startTime", params.startTime)
             \o ZodOptionalString("endTime", params.endTime)
             \o ZodOptionalNumber("maxEvents", params.maxEvents, 1, 1000))

\* z.number().int().nonnegative(), on the integers of the model
ZodNonNegativeInt(path, v) ==
  IF v.t # "number" THEN <<ZodIssue(path, "invalid_type")>>
  ELSE IF v.n < 0 THEN <<ZodIssue(path, "too_small")>>
  ELSE <<>>

GetEventInput(params) ==
  ZodParse(params,
           ZodEnum("channel", params.channel)
             \o ZodNonNegativeInt("recordId", params.recordId))

FindCrashSignalsInput(params) ==
  ZodParse(params, ZodOptionalNumber("hours", params.hours, 1, 168))

\* a handler's return value, built from what the reader gave
ToolResult(run, tool) ==
  IF ~run.ret.ok THEN run
  ELSE [ret |-> Return([tool |-> tool, data |-> run.ret.val]), trace |-> run.trace]

\* the handlers of toolHandlers, inside withAudit
ListChannelsTool(validated, outcomes) ==
  IF ~validated.ok THEN [ret |-> validated, trace |-> <<>>]
  ELSE ToolResult(listChannels(DEFAULT_CONFIG, outcomes), "list_channels")

QueryEventsTool(validated, outcomes) ==
  IF ~validated.ok THEN [ret |-> validated, trace |-> <<>>]
  ELSE ToolResult(queryEvents(validated.val.channel,
                              [xpath |-> validated.val.xpath,
                               startTime |-> validated.val.startTime,
                               endTime |-> validated.val.endTime,
                               maxEvents |-> validated.val.maxEvents],
                              DEFAULT_CONFIG, outcomes[1]),
                  "query_events")

GetEventTool(validated, outcomes) ==
  IF ~validated.ok THEN [ret |-> validated, trace |-> <<>>]
  ELSE ToolResult(getEvent(validated.val.channel, validated.val.recordId,
                           DEFAULT_CONFIG, outcomes[1]),
                  "get_event")

FindCrashSignalsTool(validated, now, outcomes) ==
  IF ~validated.ok THEN [ret |-> validated, trace |-> <<>>]
  ELSE ToolResult(findCrashSignals([hours |-> validated.val.hours, channels |-> NotGiven],
                                   DEFAULT_CONFIG, now, outcomes),
                  "find_crash_signals")

ToolNames == {"list_channels", "query_events", "get_event", "find_crash_signals"}

toolHandlers(name, params, meets) ==
  CASE name = "list_channels" ->
         withAudit(name, ListChannelsTool(ListChannelsInput(params), meets.outcomes),
                   meets.audit)
    [] name = "query_events" ->
         withAudit(name, QueryEventsTool(QueryEventsInput(params), meets.outcomes),
                   meets.audit)
    [] name = "get_event" ->
         withAudit(name, GetEventTool(GetEventInput(params), meets.outcomes), meets.audit)
    [] OTHER ->
         withAudit(name, FindCrashSignalsTool(FindCrashSignalsInput(params), meets.now,
                                              meets.outcomes),
                   meets.audit)

\* the catch of dispatchTool: a ZodError becomes a new Error that lists the
\* issues, every other error is thrown again as it is
DispatchCatch(run) ==
  IF ~run.ret.ok /\ run.ret.err = "ZodError"
    THEN [ret |-> Throw("Error", "", "Invalid parameters", run.ret.details),
          trace |-> run.trace]
  ELSE run

\* toolHandlers[name] also finds what the object inherits: toString, called
\* without a receiver, answers for undefined; valueOf throws on it
InheritedHandler(name) ==
  IF name = "toString"
    THEN [ret |-> Return([tool |-> name, data |-> <<"[","o","b","j","e","c","t"," ","U","n","d","e","f","i","n","e","d","]">>]), trace |-> <<>>]
  ELSE [ret |-> Throw("TypeError", "", "Cannot convert undefined or null to object", <<>>),
        trace |-> <<>>]

dispatchTool(name, params, meets) ==
  IF name \in ToolNames THEN DispatchCatch(toolHandlers(name, params, meets))
  ELSE IF name \in {"toString", "valueOf"} THEN InheritedHandler(name)
  ELSE [ret |-> Throw("Error", "", "Unknown tool", name), trace |-> <<>>]

\* the answer of the CallTool handler: the result as text, or, of an
\* error, its message alone (the fixed part and what was interpolated)
CallToolReply(result) ==
  IF result.ok THEN [isError |-> FALSE, text |-> result.val, error |-> <<>>]
  ELSE [isError |-> TRUE, text |-> Undefined, error |-> <<result.msg, result.details>>]

----------------------------------------------------------------------------
(* security/xpath-validator.ts: buildTimeRangeXPath                        *)

\* /^\d{4}-\d{2}-\d{2}T\d{2}:\d{2}:\d{2}/.test(s): a test of the beginning only
TimestampPrefix(s) ==
  /\ Len(s) >= 19
  /\ IsDigitsAt(s, 1, 4) /\ s[5] = "-" /\ IsDigitsAt(s, 6, 2) /\ s[8] = "-"
  /\ IsDigitsAt(s, 9, 2) /\ s[11] = "T" /\ IsDigitsAt(s, 12, 2) /\ s[14] = ":"
  /\ IsDigitsAt(s, 15, 2) /\ s[17] = ":" /\ IsDigitsAt(s, 18, 2)

TimeConditions(startTime, endTime) ==
  (IF Truthy(startTime)
     THEN <<<<"T","i","m","e","C","r","e","a","t","e","d","[","@","S","y","s","t","e","m","T","i","m","e",">","=","'">> \o startTime.s \o <<"'","]">>>> ELSE <<>>)
  \o (IF Truthy(endTime)
        THEN <<<<"T","i","m","e","C","r","e","a","t","e","d","[","@","S","y","s","t","e","m","T","i","m","e","<","=","'">> \o endTime.s \o <<"'","]">>>> ELSE <<>>)

buildTimeRangeXPath(startTime, endTime) ==
  IF Truthy(startTime) /\ ~TimestampPrefix(startTime.s)
    THEN XPathValidationError("Invalid startTime format, expected ISO 8601", <<>>)
  ELSE IF Truthy(endTime) /\ ~TimestampPrefix(endTime.s)
    THEN XPathValidationError("Invalid endTime format, expected ISO 8601", <<>>)
  ELSE IF Len(TimeConditions(startTime, endTime)) = 0 THEN Return(Undefined)
  ELSE Return(Str(<<"*","[","S","y","s","t","e","m","[">> \o Join(TimeConditions(startTime, endTime), <<" ","a","n","d"," ">>)
                    \o <<"]","]">>))

----------------------------------------------------------------------------
(* The allowlist as an array of the module, and the arrays handed to       *)
(* callers: heap.allow is the content of ALLOWED_CHANNELS, heap.lists the  *)
(* arrays callers hold, in the order they were handed out.                 *)

\* handing out the array itself instead of a copy
SpreadCopy_sameArray(array) == [alias |-> TRUE, items |-> array]

\* [...ALLOWED_CHANNELS]: a new array with the same elements
SpreadCopy(array) == [alias |-> FALSE, items |-> array]

ContentsOf(heap, list) == IF list.alias THEN heap.allow ELSE list.items

\* validateChannel and isChannelAllowed, reading the array as it is now
ValidateIn(allowed, channel) ==
  IF channel.t # "string"
    THEN Throw("ChannelNotAllowedError", "CHANNEL_NOT_ALLOWED", "not in the allowed list",
               <<JsString(channel)>> \o allowed)
  ELSE IF Len(channel.s) = 0
    THEN Throw("ChannelNotAllowedError", "CHANNEL_NOT_ALLOWED", "not in the allowed list",
               <<<<"(","e","m","p","t","y",")">>>> \o allowed)
  ELSE IF ~ArrayIncludes(allowed, channel.s)
    THEN Throw("ChannelNotAllowedError", "CHANNEL_NOT_ALLOWED", "not in the allowed list",
               <<channel.s>> \o allowed)
  ELSE Return(channel)

IsAllowedIn(allowed, channel) == channel.t = "string" /\ ArrayIncludes(allowed, channel.s)

\* what a caller may do to an array it holds
MaxListLen == 3

Mutated(items, how) ==
  CASE how = "push" -> IF Len(items) < MaxListLen THEN Append(items, <<"S","e","c","u","r","i","t","y">>) ELSE items
    [] how = "pop" -> IF Len(items) > 0 THEN SubSeq(items, 1, Len(items) - 1) ELSE items
    [] how = "set" -> IF Len(items) > 0 THEN [items EXCEPT ![1] = <<"S","e","c","u","r","i","t","y">>] ELSE items
    [] OTHER -> <<>>

\* a write through a reference reaches the array it refers to
WriteList(heap, i, items) ==
  IF heap.lists[i].alias THEN [heap EXCEPT !.allow = items]
  ELSE [heap EXCEPT !.lists[i].items = items]

\* the caller keeps at most MaxLists arrays
MaxLists == 2

HandOut(heap, list) ==
  IF Len(heap.lists) < MaxLists THEN [heap EXCEPT !.lists = Append(@, list)] ELSE heap

GetAllowedChannelsStep ==
  /\ pc' = "done"
  /\ op' = "getAllowedChannels"
  /\ arg' = [channel |-> Undefined]
  /\ ret' = Return(ContentsOf(env, SpreadCopy(env.allow)))
  /\ env' = HandOut(env, SpreadCopy(env.allow))
  /\ UNCHANGED <<trace, queried>>

\* a refused channel gives an error that holds its own allowedChannels array
ValidateChannelStep ==
  /\ \E c \in {Str(System), Str(Application), Str(<<"S","e","c","u","r","i","t","y">>), Str(<<>>), Undefined} :
       /\ pc' = "done"
       /\ op' = "validateChannel"
       /\ arg' = [channel |-> c]
       /\ ret' = ValidateIn(env.allow, c)
       /\ env' = IF ValidateIn(env.allow, c).ok THEN env
                 ELSE HandOut(env, SpreadCopy(env.allow))
  /\ UNCHANGED <<trace, queried>>

IsChannelAllowedStep ==
  /\ \E c \in {Str(System), Str(Application), Str(<<"S","e","c","u","r","i","t","y">>), Undefined} :
       /\ pc' = "done"
       /\ op' = "isChannelAllowed"
       /\ arg' = [channel |-> c]
       /\ ret' = Return(IsAllowedIn(env.allow, c))
  /\ UNCHANGED <<env, trace, queried>>

\* the caller changes an array it was handed
MutateStep ==
  /\ \E i \in DOMAIN env.lists, how \in {"push", "pop", "set", "clear"} :
       /\ pc' = "done"
       /\ op' = "mutate"
       /\ arg' = [channel |-> Undefined]
       /\ env' = WriteList(env, i, Mutated(ContentsOf(env, env.lists[i]), how))
  /\ UNCHANGED <<ret, trace, queried>>

----------------------------------------------------------------------------
(* audit logger step by step: several logAudit calls in flight. env holds  *)
(* how mkdir and each appendFile will end, initPromise ("null", "pending", *)
(* "resolved" or "rejected"), whether logFilePath is set, the number of    *)
(* mkdir calls started and each call's position: "start", "awaitInit" (at  *)
(* await initialize()), "appending" (at await appendFile), "done", "threw".*)

\* an initialize that looks at logFilePath, which is set once mkdir is over
initialize_guardsOnPath(audit) ==
  IF audit.logFilePath THEN audit
  ELSE [audit EXCEPT !.initPromise = "pending", !.mkdirs = @ + 1]

\* initialize up to its return: the first call starts mkdir and keeps the promise
initialize(audit) ==
  IF audit.initPromise # "null" THEN audit
  ELSE [audit EXCEPT !.initPromise = "pending", !.mkdirs = @ + 1]

\* the tools whose calls are logged, in turn
LoggedTools == <<"list_channels", "query_events", "get_event", "find_crash_signals">>

NoAudit(mkdir, appends) ==
  [mkdir |-> mkdir, appends |-> appends, initPromise |-> "null", logFilePath |-> FALSE,
   mkdirs |-> 0, calls |-> [i \in DOMAIN appends |-> "start"]]

\* logAudit is entered: initialize() runs to its return, the call awaits it
LogAuditEnter ==
  /\ op = "logAudit"
  /\ \E i \in DOMAIN env.calls :
       /\ env.calls[i] = "start"
       /\ env' = [initialize(env) EXCEPT !.calls[i] = "awaitInit"]
  /\ UNCHANGED <<pc, op, arg, ret, trace, queried>>

\* mkdir ends: on success logFilePath is set and the promise resolves
MkdirSettle ==
  /\ op = "logAudit"
  /\ env.initPromise = "pending"
  /\ env' = [env EXCEPT !.initPromise = IF env.mkdir = "ok" THEN "resolved" ELSE "rejected",
                        !.logFilePath = @ \/ env.mkdir = "ok"]
  /\ UNCHANGED <<pc, op, arg, ret, trace, queried>>

\* a call goes on after await initialize(): it throws on a rejected promise,
\* else it sets logFilePath and starts appendFile
LogAuditResume ==
  /\ op = "logAudit"
  /\ env.initPromise \in {"resolved", "rejected"}
  /\ \E i \in DOMAIN env.calls :
       /\ env.calls[i] = "awaitInit"
       /\ env' = IF env.initPromise = "rejected" THEN [env EXCEPT !.calls[i] = "threw"]
                 ELSE [env EXCEPT !.calls[i] = "appending", !.logFilePath = TRUE]
  /\ UNCHANGED <<pc, op, arg, ret, trace, queried>>

\* appendFile ends: the line is in the file, or the failure is caught
AppendFileSettle ==
  /\ op = "logAudit"
  /\ \E i \in DOMAIN env.calls :
       /\ env.calls[i] = "appending"
       /\ env' = [env EXCEPT !.calls[i] = "done"]
       /\ trace' = IF env.appends[i] = "ok" THEN Append(trace, arg.entries[i]) ELSE trace
  /\ UNCHANGED <<pc, op, arg, ret, queried>>

---------------------------------------------------------------------------
(* Inputs of the channel guard                                             *)

ReplaceAt(s, i, c) == [s EXCEPT ![i] = c]
InsertAt(s, i, c) == SubSeq(s, 1, i) \o <<c>> \o SubSeq(s, i + 1, Len(s))
RemoveAt(s, i) == SubSeq(s, 1, i - 1) \o SubSeq(s, i + 1, Len(s))

SwapCase(c) ==
  IF c \in Lowers THEN toUpperCaseChar(c)
  ELSE IF c \in Uppers THEN toLowerCaseChar(c)
  ELSE c

\* look-alike code units: full-width and Cyrillic
Homoglyphs(c) ==
  CASE c = "S" -> {"FW_S"}
    [] c = "A" -> {"FW_A", "CYR_A"}
    [] c = "a" -> {"CYR_a"}
    [] c = "e" -> {"CYR_e"}
    [] c = "o" -> {"CYR_o"}
    [] c = "p" -> {"CYR_p"}
    [] c = "c" -> {"CYR_c"}
    [] c = "y" -> {"CYR_y"}
    [] c = "i" -> {"CYR_i"}
    [] OTHER -> {}

Intruders == {" ", "\t", "\n", "NUL"}

PathPrefixes == {<<".",".","/">>, <<".","/">>, <<"/">>, <<"S","y","s","t","e","m","/",".",".","/">>, <<"\\","\\",".","\\">>}

NearMisses(name) ==
  {ReplaceAt(name, i, SwapCase(name[i])) : i \in DOMAIN name}
    \cup UNION {{ReplaceAt(name, i, c) : c \in Homoglyphs(name[i])} : i \in DOMAIN name}
    \cup {InsertAt(name, i, c) : i \in 0..Len(name), c \in Intruders}
    \cup {RemoveAt(name, i) : i \in DOMAIN name}
    \cup {p \o name : p \in PathPrefixes}
    \cup {toUpperCase(name), toLowerCase(name)}

OtherChannels ==
  {<<"S","e","c","u","r","i","t","y">>, <<"S","e","t","u","p">>, <<"F","o","r","w","a","r","d","e","d","E","v","e","n","t","s">>, <<"S","y","S","t","E","m">>,
   <<".",".","/","S","e","c","u","r","i","t","y">>, <<"S","y","s","t","e","m","/",".",".","/","S","e","c","u","r","i","t","y">>,
   <<"M","i","c","r","o","s","o","f","t","-","W","i","n","d","o","w","s","-","S","e","c","u","r","i","t","y","-","A","u","d","i","t","i","n","g">>,
   <<"M","i","c","r","o","s","o","f","t","-","W","i","n","d","o","w","s","-","P","o","w","e","r","S","h","e","l","l","/","O","p","e","r","a","t","i","o","n","a","l">>, <<>>}

ChannelStrings ==
  Range(ALLOWED_CHANNELS) \cup OtherChannels
    \cup UNION {NearMisses(ALLOWED_CHANNELS[i]) : i \in DOMAIN ALLOWED_CHANNELS}

ChannelInputs == {Str(s) : s \in ChannelStrings} \cup {Null, Undefined, Num(123), Obj}

---------------------------------------------------------------------------
(* Inputs of the filter validator                                          *)

MaxNestGen == 7
MaxChainGen == 12
MaxFill == 13
LongFill == 500
SmallMaxLength == 30

Configs == {DEFAULT_CONFIG, [DEFAULT_CONFIG EXCEPT !.xpathMaxLength = SmallMaxLength]}

CalledFunctions ==
  {<<"d","o","c","u","m","e","n","t">>, <<"d","o","c">>, <<"c","o","n","c","a","t">>, <<"s","t","r","i","n","g">>, <<"s","u","b","s","t","r","i","n","g">>, <<"t","r","a","n","s","l","a","t","e">>,
   <<"n","o","r","m","a","l","i","z","e","-","s","p","a","c","e">>, <<"c","o","n","t","a","i","n","s">>, <<"s","t","a","r","t","s","-","w","i","t","h">>, <<"s","t","r","i","n","g","-","l","e","n","g","t","h">>,
   <<"c","o","u","n","t">>, <<"s","u","m">>, <<"f","l","o","o","r">>, <<"c","e","i","l","i","n","g">>, <<"r","o","u","n","d">>, <<"t","r","u","e">>, <<"f","a","l","s","e">>,
   <<"n","o","t">>, <<"b","o","o","l","e","a","n">>, <<"n","u","m","b","e","r">>, <<"i","d">>, <<"n","a","m","e">>, <<"l","o","c","a","l","-","n","a","m","e">>,
   <<"n","a","m","e","s","p","a","c","e","-","u","r","i">>, <<"c","o","m","m","e","n","t">>, <<"p","r","o","c","e","s","s","i","n","g","-","i","n","s","t","r","u","c","t","i","o","n">>, <<"t","e","x","t">>,
   <<"n","o","d","e">>,
   \* functions and node tests of XPath 1.0 the blocklist does not name
   <<"p","o","s","i","t","i","o","n">>, <<"l","a","s","t">>, <<"l","a","n","g">>, <<"s","u","b","s","t","r","i","n","g","-","b","e","f","o","r","e">>, <<"f","o","o">>}

UsedAxes ==
  {<<"n","a","m","e","s","p","a","c","e">>, <<"p","r","e","c","e","d","i","n","g">>, <<"f","o","l","l","o","w","i","n","g">>, <<"p","r","e","c","e","d","i","n","g","-","s","i","b","l","i","n","g">>,
   <<"f","o","l","l","o","w","i","n","g","-","s","i","b","l","i","n","g">>, <<"a","n","c","e","s","t","o","r">>, <<"d","e","s","c","e","n","d","a","n","t">>, <<"a","n","c","e","s","t","o","r","-","o","r","-","s","e","l","f">>,
   <<"d","e","s","c","e","n","d","a","n","t","-","o","r","-","s","e","l","f">>,
   \* axes of XPath 1.0 the blocklist does not name
   <<"c","h","i","l","d">>, <<"p","a","r","e","n","t">>, <<"s","e","l","f">>, <<"a","t","t","r","i","b","u","t","e">>}

ConstructCores ==
  {f \o <<"(",")">> : f \in CalledFunctions}
    \cup {f \o <<" ","\t","(","'","a","'",")">> : f \in CalledFunctions}
    \cup {a \o <<":",":","*">> : a \in UsedAxes}
    \cup {a \o <<" ",":",":","n","o","d","e">> : a \in UsedAxes}
    \cup {<<"$","v","a","r">>, <<"E","v","e","n","t","I","D","=","$","e","v","e","n","t","I","d">>, <<".",".">>, <<".",".","/","S","e","c","u","r","i","t","y">>,
          <<"x","=","'","1","'","]","[","y","=","'","2","'">>, <<"x","=","\"","1","\""," ","]"," ","[","y">>, <<"1","0","0","0","-","-","c","o","m","m","e","n","t">>,
          <<"1","0","0","0","/","*","c","o","m","m","e","n","t","*","/">>, <<"_","c","o","n","c","a","t","(","'","a","'",",","'","b","'",")">>, <<"x","c","o","n","c","a","t","(","'","a","'",")">>}

CharacterCores ==
  {<<"a","#","b">>, <<"a","|","b">>, <<"a",";","b">>, <<"a","$">>, <<"{","a","}">>, <<"a","\\","b">>, <<"a","+","b">>, <<"a","&","b">>,
   <<"a","%","b">>, <<"a","_","b">>, <<"a","FW_S","b">>, <<"a","NUL","b">>, <<"a","BACKTICK","b">>}

ValidCores ==
  {<<"E","v","e","n","t","I","D","=","1","0","0","0">>, <<"L","e","v","e","l","=","2">>, <<"T","i","m","e","C","r","e","a","t","e","d","[","@","S","y","s","t","e","m","T","i","m","e",">","=","'","2","0","2","5","-","0","1","-","0","1","T","0","0",":","0","0",":","0","0","Z","'","]">>,
   <<"P","r","o","v","i","d","e","r","[","@","N","a","m","e","=","'","A","p","p","l","i","c","a","t","i","o","n"," ","E","r","r","o","r","'","]">>, <<"E","v","e","n","t","I","D","=","1","0","0","0"," ","a","n","d"," ","L","e","v","e","l","=","2">>,
   <<"E","v","e","n","t","I","D","=","1","0","0","0"," ","o","r"," ","E","v","e","n","t","I","D","=","1","0","0","1">>,
   <<"(","E","v","e","n","t","I","D","=","1","0","0","0"," ","o","r"," ","E","v","e","n","t","I","D","=","1","0","0","1",")"," ","a","n","d"," ","L","e","v","e","l",">","=","2"," ","a","n","d"," ","P","r","o","v","i","d","e","r","[","@","N","a","m","e","=","'","M","y","A","p","p","'","]">>,
   <<"L","e","v","e","l","!","=","2">>, <<"L","e","v","e","l","<","=","2">>, <<"*">>}

CaseModes == {"asis", "upper", "mixed"}

ApplyCase(mode, s) ==
  CASE mode = "upper" -> toUpperCase(s)
    [] mode = "mixed" ->
         [i \in DOMAIN s |-> IF i % 2 = 1 THEN toUpperCaseChar(s[i]) ELSE s[i]]
    [] OTHER -> s

\* surrounding valid syntax
Wrappers ==
  { <<<<>>, <<>>>>,
    <<<<"*","[","S","y","s","t","e","m","[">>, <<"]","]">>>>,
    <<<<"*","[","S","y","s","t","e","m","[","E","v","e","n","t","I","D","=","1","0","0","0"," ","a","n","d"," ">>, <<" ","o","r"," ","L","e","v","e","l","=","2","]","]">>>> }

\* leading and trailing whitespace
Pads == { <<<<>>, <<>>>>, <<<<" ","\t">>, <<"\n"," ">>>> }

WrappedInputs ==
  {p[1] \o w[1] \o ApplyCase(m, c) \o w[2] \o p[2] :
     c \in ConstructCores \cup CharacterCores \cup ValidCores,
     w \in Wrappers, m \in CaseModes, p \in Pads}

\* "*" then d nested predicates, then chained ones up to n predicates in all
NestChain(d, n) ==
  <<"*">> \o Repeat(<<"[","a">>, d) \o Repeat(<<"]">>, d) \o Repeat(<<"[","a","]">>, n - d)

StructureInputs ==
  {NestChain(d, n) : d \in 0..MaxNestGen, n \in 0..MaxChainGen}
    \cup {<<"*","[","S","y","s","t","e","m","[","E","v","e","n","t","I","D","=","1","0","0","0","]">>, <<"*","[","S","y","s","t","e","m","[","E","v","e","n","t","I","D","=","1","0","0","0","]","]","]">>, <<"]","a","[">>,
          <<"*">> \o Repeat(<<"[","a">>, MaxNestGen), <<"*">> \o Repeat(<<"[","a","]">>, MaxChainGen) \o <<"]">>}

\* around the length limits
LengthInputs ==
  {<<"*","[","S","y","s","t","e","m","[","E","v","e","n","t","I","D","=">> \o Repeat(<<"1">>, k) \o <<"]","]">> : k \in 0..MaxFill}
    \cup {h \o Repeat(<<"1">>, k) \o t :
            h \in {<<"*","[","S","y","s","t","e","m","[","E","v","e","n","t","I","D","=">>, <<"d","o","c","u","m","e","n","t","(","'">>, <<"a","#">>, <<"*","[","a","]","]","[">>},
            t \in {<<"]","]">>, <<"'",")">>},
            k \in {LongFill - 30, LongFill}}

BlankInputs == {<<>>, <<" "," "," ">>, <<" ","\t","\n">>}

XPathInputs ==
  {Str(s) : s \in WrappedInputs \cup StructureInputs \cup LengthInputs \cup BlankInputs}
    \cup {Null, Undefined, Num(1000), Obj}
    \cup {Null, Undefined, Num(123), Obj}

---------------------------------------------------------------------------
(* Inputs of the reader: channels, options, clock readings and the ways a  *)
(* PowerShell run can end                                                  *)

Security == <<"S","e","c","u","r","i","t","y">>

ReaderChannels ==
  {Str(System), Str(Application), Str(Security), Str(<<"s","y","s","t","e","m">>), Str(<<" ","S","y","s","t","e","m">>),
   Str(<<"S","y","s","t","e","m","'",";"," ","G","e","t","-","P","r","o","c","e","s","s",";"," ","'">>), Str(<<>>), Undefined}

RawEvent(recordId, id, level, provider, message, time, logName) ==
  [RecordId |-> recordId, Id |-> id, Level |-> level, LevelDisplayName |-> Undefined,
   TimeCreated |-> time, ProviderName |-> provider, Message |-> message,
   MachineName |-> <<"P","C">>, LogName |-> logName]

FaultMessage ==
  Str(<<"F","a","u","l","t","i","n","g"," ","a","p","p","l","i","c","a","t","i","o","n"," ","n","a","m","e",":"," ","a","p","p",".","e","x","e",","," ","v","e","r","s","i","o","n",":"," ","1",".","0","\n","F","a","u","l","t","i","n","g"," ","m","o","d","u","l","e"," ","n","a","m","e",":"," "," ","n","t","d","l","l",".","d","l","l",","," ","v","e","r","s","i","o","n",":"," ","1","0">>)

SampleEvents ==
  << RawEvent(11, 1000, 2, <<"A","p","p","l","i","c","a","t","i","o","n"," ","E","r","r","o","r">>, FaultMessage,
              <<"2","0","2","5","-","0","3","-","0","1","T","0","4",":","0","0",":","0","0",".","0","0","0","0","0","0","0","Z">>, Application),
     RawEvent(12, 7031, 2, <<"S","e","r","v","i","c","e"," ","C","o","n","t","r","o","l"," ","M","a","n","a","g","e","r">>, Null,
              <<"2","0","2","5","-","0","3","-","0","1","T","0","4",":","3","0",":","0","0",".","5","0","0","0","0","0","0","+","0","1",":","0","0">>, System),
     RawEvent(13, 6005, 4, <<"E","v","e","n","t","L","o","g">>, Str(<<"T","h","e"," ","E","v","e","n","t"," ","l","o","g"," ","s","e","r","v","i","c","e"," ","w","a","s"," ","s","t","a","r","t","e","d",".">>),
              <<"2","0","2","5","-","0","3","-","0","1","T","0","4",":","4","5",":","0","0",".","0","0","0","0","0","0","0","Z">>, System) >>

RunOutcomes ==
  {Resolved("array", SampleEvents), Resolved("object", <<SampleEvents[1]>>),
   Resolved("null", <<>>), Rejected("exit"), Rejected("timeout")}

RawChannelInfo(name) == [LogName |-> name, IsEnabled |-> TRUE, RecordCount |-> 1234]

InfoOutcomes(name) ==
  {Resolved("object", <<RawChannelInfo(name)>>), Resolved("null", <<>>),
   Resolved("array", <<>>), Rejected("exit"), Rejected("timeout")}

Nows == {DateParse(<<"2","0","2","5","-","0","3","-","0","1","T","0","5",":","0","4",":","0","3",".","1","2","3","Z">>), DateParse(<<"2","0","2","4","-","0","2","-","2","9","T","2","3",":","3","0",":","0","0",".","0","0","0","Z">>)}

NoArg == [channel |-> Undefined]
NoClock == InvalidDate
NoEnv == [now |-> NoClock, outcomes |-> <<>>]
Meets(now, outcomes) == [now |-> now, outcomes |-> outcomes]

TimeStrings ==
  {Undefined, Str(<<"2","0","2","5","-","0","2","-","2","8","T","2","3",":","5","9",":","5","9",".","5","+","0","2",":","0","0">>), Str(<<"i","n","v","a","l","i","d","-","d","a","t","e">>),
   Str(<<"2","0","1","5","-","0","1","-","0","1","T","0","0",":","0","0",":","0","0","Z">>)}

QueryXPaths ==
  {Undefined, Str(<<" "," ","*","[","S","y","s","t","e","m","[","P","r","o","v","i","d","e","r","[","@","N","a","m","e","=","'","i","t","'","'","s","'","]","]","]"," ">>),
   Str(<<"*","[","c","o","n","t","a","i","n","s","(","M","e","s","s","a","g","e",",","'","x","'",")","]">>)}

QueryArgs ==
  [channel : ReaderChannels,
   options : [xpath : QueryXPaths, startTime : TimeStrings,
              endTime : {Str(<<>>), Str(<<"2","0","2","5","-","0","3","-","0","2","T","0","0",":","0","0",":","0","0","Z">>)},
              maxEvents : {Undefined, Num(5000)}],
   config : {DEFAULT_CONFIG}]

GetEventArgs ==
  [channel : ReaderChannels, recordId : {Num(0), Num(42), Num(-1), Undefined},
   config : {DEFAULT_CONFIG}]

GetChannelInfoArgs == [channel : ReaderChannels, config : {DEFAULT_CONFIG}]

ListChannelsArgs == [config : {DEFAULT_CONFIG}]

ChannelLists ==
  {NotGiven, Given(<<>>), Given(<<Str(System)>>), Given(<<Str(Application), Str(System)>>),
   Given(<<Str(System), Str(Security)>>), Given(<<Str(Security), Str(System)>>)}

FindCrashSignalsArgs ==
  [options : [hours : {Undefined, Num(1000)}, channels : ChannelLists],
   config : {DEFAULT_CONFIG}]

\* how the two runs of a scan can end
ScanOutcomes ==
  {<<a, b>> : a \in {Resolved("array", SampleEvents), Rejected("exit")},
              b \in {Resolved("object", <<SampleEvents[1]>>), Rejected("timeout")}}

\* limits: what is asked for, and the caps a configuration may set
Requested ==
  {Undefined, Null} \cup
  {Num(n) : n \in {-5, 0, 1, 2, 23, 24, 25, 49, 50, 51, 99, 100, 101, 167, 168, 169,
                   199, 200, 201, 999, 1000, 1001, 100000}}

MaxEventsCaps == {1, 50, 100, 1000}
MaxHoursCaps == {1, 24, 168}

LimitConfigs ==
  {[DEFAULT_CONFIG EXCEPT !.maxEventsPerQuery = e, !.maxTimeRangeHours = h] :
     e \in MaxEventsCaps, h \in MaxHoursCaps}

\* classification: providers and event ids around every pattern
ProviderNames ==
  {<<"A","p","p","l","i","c","a","t","i","o","n"," ","E","r","r","o","r">>, <<"A","P","P","L","I","C","A","T","I","O","N"," ","E","R","R","O","R">>, <<"W","i","n","d","o","w","s"," ","E","r","r","o","r"," ","R","e","p","o","r","t","i","n","g">>,
   <<"A","p","p","l","i","c","a","t","i","o","n"," ","H","a","n","g">>, <<"M","i","c","r","o","s","o","f","t","-","W","i","n","d","o","w","s","-","W","E","R","-","S","y","s","t","e","m","E","r","r","o","r","R","e","p","o","r","t","i","n","g">>, <<"B","u","g","C","h","e","c","k">>,
   <<"b","u","g","c","h","e","c","k">>, <<"S","e","r","v","i","c","e"," ","C","o","n","t","r","o","l"," ","M","a","n","a","g","e","r">>, <<"M","i","c","r","o","s","o","f","t","-","W","i","n","d","o","w","s","-","W","H","E","A","-","L","o","g","g","e","r">>,
   <<"M","y"," ","A","p","p","l","i","c","a","t","i","o","n"," ","E","r","r","o","r"," ","H","e","l","p","e","r">>, <<"A","p","p","l","i","c","a","t","i","o","n">>, <<"E","v","e","n","t","L","o","g">>, <<>>}

EventIds == {1000, 1001, 1002, 1, 7031, 7034, 7024, 17, 18, 19, 47, 41, 6005}

ClassifyEvents ==
  {RawEvent(7, id, 2, p, FaultMessage, <<"2","0","2","5","-","0","3","-","0","1","T","0","4",":","0","0",":","0","0",".","0","0","0","0","0","0","0","Z">>, System) :
     p \in ProviderNames, id \in EventIds}

\* scans: what each of two channels holds, with equal, close and distinct times
ScanListA ==
  << RawEvent(21, 1000, 2, <<"A","p","p","l","i","c","a","t","i","o","n"," ","E","r","r","o","r">>, FaultMessage,
              <<"2","0","2","5","-","0","3","-","0","1","T","0","4",":","0","0",":","0","0",".","0","0","0","0","0","0","0","Z">>, System),
     RawEvent(22, 7031, 2, <<"S","e","r","v","i","c","e"," ","C","o","n","t","r","o","l"," ","M","a","n","a","g","e","r">>, Null,
              <<"2","0","2","5","-","0","3","-","0","1","T","0","4",":","3","0",":","0","0",".","5","0","0","0","0","0","0","+","0","1",":","0","0">>, System),
     RawEvent(23, 6005, 4, <<"E","v","e","n","t","L","o","g">>, Null, <<"2","0","2","5","-","0","3","-","0","1","T","0","4",":","4","5",":","0","0",".","0","0","0","0","0","0","0","Z">>, System),
     RawEvent(24, 1002, 2, <<"A","p","p","l","i","c","a","t","i","o","n"," ","H","a","n","g">>, Null,
              <<"2","0","2","5","-","0","3","-","0","1","T","0","5",":","0","0",":","0","0",".","0","0","0","0","0","0","0","+","0","1",":","0","0">>, System) >>

ScanListB ==
  << RawEvent(31, 41, 1, <<"B","u","g","C","h","e","c","k">>, Null, <<"2","0","2","5","-","0","3","-","0","1","T","0","4",":","0","0",":","0","0",".","0","0","0","0","0","0","0","Z">>, Application),
     RawEvent(32, 17, 2, <<"M","i","c","r","o","s","o","f","t","-","W","i","n","d","o","w","s","-","W","H","E","A","-","L","o","g","g","e","r">>, Null,
              <<"2","0","2","5","-","0","3","-","0","1","T","0","6",":","0","0",":","0","0",".","1","2","3","0","0","0","0","Z">>, Application),
     RawEvent(33, 1001, 2, <<"W","i","n","d","o","w","s"," ","E","r","r","o","r"," ","R","e","p","o","r","t","i","n","g">>, Null,
              <<"2","0","2","5","-","0","3","-","0","1","T","0","4",":","0","0",":","0","0",".","0","0","0","9","9","9","9","Z">>, Application) >>

ScanRuns ==
  {Resolved("array", ScanListA), Resolved("array", ScanListB),
   Resolved("object", <<ScanListB[2]>>), Resolved("array", <<>>), Resolved("null", <<>>),
   Rejected("exit"), Rejected("timeout"), Rejected("spawn"), Rejected("parse")}

ScanChannelLists ==
  {NotGiven, Given(<<Str(Application), Str(System)>>), Given(<<Str(System), Str(System)>>)}


\* what the child writes, cut into the chunks the 'data' events deliver
OutputTexts == {<<>>, <<" ","\n">>, <<"[","]">>, <<"{","}">>, <<"n","u","l","l">>, <<"[","{">>, <<"[","]","\n">>}

Chunks(fd, text) ==
  {<<>>} \cup {<<[fd |-> fd, text |-> text]>>}
    \cup {<<[fd |-> fd, text |-> SubSeq(text, 1, 1)],
            [fd |-> fd, text |-> SubSeq(text, 2, Len(text))]>> : x \in {t \in {text} : Len(t) > 1}}

StderrTexts == {<<"A","c","c","e","s","s"," ","i","s"," ","d","e","n","i","e","d">>, <<"N","o"," ","e","v","e","n","t","s"," ","w","e","r","e"," ","f","o","u","n","d">>}

ProcessPlans ==
  {[kind |-> "exits", code |-> 0, chunks |-> c, message |-> <<>>] :
     c \in UNION {Chunks("stdout", t) : t \in OutputTexts}}
  \cup {[kind |-> "exits", code |-> 1, chunks |-> c, message |-> <<>>] :
     c \in UNION {Chunks("stderr", t) : t \in StderrTexts}}
  \cup {[kind |-> "hangs", code |-> 0, chunks |-> c, message |-> <<>>] :
     c \in {<<>>, <<[fd |-> "stdout", text |-> <<"[","{">>]>>}}
  \cup {[kind |-> "fails", code |-> 0, chunks |-> <<>>, message |-> m] :
     m \in {<<"s","p","a","w","n"," ","p","o","w","e","r","s","h","e","l","l",".","e","x","e"," ","E","N","O","E","N","T">>, <<"s","p","a","w","n"," ","E","A","C","C","E","S">>}}

ProcessScripts ==
  {[NoScript EXCEPT !.cmd = "Get-WinEvent", !.logName = c, !.maxEvents = 100,
                    !.timeoutMs = DEFAULT_CONFIG.queryTimeoutMs] : c \in {System, Application}}

\* tool calls: every key of every schema, undefined where it is left out
NoParams ==
  [channel |-> Undefined, xpath |-> Undefined, startTime |-> Undefined,
   endTime |-> Undefined, maxEvents |-> Undefined, recordId |-> Undefined,
   hours |-> Undefined]

ToolChannels == {Str(System), Str(Application), Str(Security), Str(<<"s","y","s","t","e","m">>), Undefined}

ToolCalls ==
  {[name |-> "query_events",
    params |-> [NoParams EXCEPT !.channel = c, !.xpath = x, !.maxEvents = n]] :
     c \in ToolChannels,
     x \in {Undefined, Str(<<"*","[","S","y","s","t","e","m","[","E","v","e","n","t","I","D","=","4","1","]","]">>), Str(<<"*","[","c","o","n","t","a","i","n","s","(","M","e","s","s","a","g","e",",","'","x","'",")","]">>)},
     n \in {Undefined, Num(0), Num(10), Num(5000)}}
  \cup {[name |-> "get_event", params |-> [NoParams EXCEPT !.channel = c, !.recordId = r]] :
     c \in ToolChannels, r \in {Num(42), Num(-1), Undefined}}
  \cup {[name |-> "find_crash_signals", params |-> [NoParams EXCEPT !.hours = h]] :
     h \in {Undefined, Num(24), Num(1000)}}
  \cup {[name |-> n, params |-> NoParams] :
     n \in {"list_channels", "get_crash_events", "toString", "valueOf"}}

\* how a run can fail, with the text the collaborator gave
FailedRuns ==
  {Rejected("timeout"),
   RejectedWith("exit", <<"A","c","c","e","s","s"," ","i","s"," ","d","e","n","i","e","d">>),
   RejectedWith("exit", <<"N","o"," ","e","v","e","n","t","s"," ","w","e","r","e"," ","f","o","u","n","d">>),
   RejectedWith("spawn", <<"s","p","a","w","n"," ","p","o","w","e","r","s","h","e","l","l",".","e","x","e"," ","E","N","O","E","N","T">>),
   RejectedWith("parse", <<"S","y","n","t","a","x","E","r","r","o","r",":"," ","U","n","e","x","p","e","c","t","e","d"," ","t","o","k","e","n">>)}

\* the runs a tool meets: channel infos for list_channels, events otherwise
ToolRuns(name) ==
  IF name = "list_channels"
    THEN {<<a, b>> : a \in {Resolved("object", <<RawChannelInfo(System)>>)} \cup FailedRuns,
                     b \in {Resolved("object", <<RawChannelInfo(Application)>>),
                            Rejected("timeout")}}
  ELSE {<<a, b>> : a \in {Resolved("array", SampleEvents), Resolved("null", <<>>)}
                            \cup FailedRuns,
                   b \in {Resolved("array", <<>>), Rejected("timeout")}}

AuditStates == {"ok", "appendFails", "mkdirFails"}

ToolMeets(name) ==
  [now : {DateParse(<<"2","0","2","5","-","0","3","-","0","1","T","0","5",":","0","4",":","0","3",".","1","2","3","Z">>)}, outcomes : ToolRuns(name),
   audit : AuditStates]

\* how the info query of a channel can end
ListRuns(name) == InfoOutcomes(name) \cup FailedRuns

\* filters on one field of the System element, and lists of up to three
FieldFilter(field, n) == <<"*","[","S","y","s","t","e","m","[">> \o field \o <<"=">> \o NumberToString(n) \o <<"]","]">>

FilterFields == {<<"E","v","e","n","t","I","D">>, <<"L","e","v","e","l">>}
FilterValues == {2, 41}

FilterInputs ==
  {Undefined, Str(<<>>)} \cup {Str(FieldFilter(f, n)) : f \in FilterFields, n \in FilterValues}

MaxFilters == 3

FilterLists == UNION {[1..n -> FilterInputs] : n \in 0..MaxFilters}

\* start and end values: well-formed, malformed, and well-formed with a tail
TimeInputs ==
  {Undefined, Str(<<>>),
   Str(<<"2","0","2","5","-","0","1","-","0","1","T","0","0",":","0","0",":","0","0","Z">>), Str(<<"2","0","2","5","-","1","2","-","3","1","T","2","3",":","5","9",":","5","9",".","1","2","3","+","0","2",":","0","0">>),
   Str(<<"i","n","v","a","l","i","d","-","d","a","t","e">>), Str(<<"2","0","2","5","-","0","1","-","0","1">>), Str(<<"0","3","/","0","1","/","2","0","2","5"," ","1","0",":","0","0">>),
   Str(<<"2","0","2","5","-","1","3","-","4","5","T","9","9",":","9","9",":","9","9","Z">>), Str(<<"2","0","2","5","-","0","1","-","0","1","T","0","0",":","0","0",":","0","0","Z"," ","j","u","n","k">>),
   Str(<<"2","0","2","5","-","0","1","-","0","1","T","0","0",":","0","0",":","0","0","Z","'"," ","o","r"," ","@","N","a","m","e","=","'","x">>)}

\* concurrent logAudit calls: how many, and how each appendFile ends
MaxCalls == 3

AppendPlans == UNION {[1..n -> {"ok", "fails"}] : n \in 1..MaxCalls}

AuditEntries(n) == [i \in 1..n |-> AuditEntry("tool_call", LoggedTools[((i - 1) % 4) + 1])]
---------------------------------------------------------------------------
(* The state machine                                                       *)

NoCall ==
  /\ ret = Return(Undefined)
  /\ trace = <<>>
  /\ queried = {}

Init ==
  /\ pc = "idle"
  /\ op = "none"
  /\ arg = NoArg
  /\ env = NoEnv
  /\ NoCall

\* a caller calls the operation o with the arguments a; the call will meet e
Request(o, a, e) ==
  /\ pc = "idle"
  /\ pc' = "call"
  /\ op' = o
  /\ arg' = a
  /\ env' = e
  /\ UNCHANGED <<ret, trace, queried>>

RequestQueryEvents ==
  \E a \in QueryArgs, o \in RunOutcomes :
    Request("queryEvents", a, Meets(NoClock, <<o>>))

RequestGetEvent ==
  \E a \in GetEventArgs, o \in RunOutcomes :
    Request("getEvent", a, Meets(NoClock, <<o>>))

RequestGetChannelInfo ==
  \E a \in GetChannelInfoArgs, o \in InfoOutcomes(System) :
    Request("getChannelInfo", a, Meets(NoClock, <<o>>))

RequestListChannels ==
  \E a \in ListChannelsArgs, o1 \in InfoOutcomes(System),
     o2 \in InfoOutcomes(Application) :
    Request("listChannels", a, Meets(NoClock, <<o1, o2>>))

RequestFindCrashSignals ==
  \E a \in FindCrashSignalsArgs, os \in ScanOutcomes, now \in Nows :
    Request("findCrashSignals", a, Meets(now, os))

\* the log names PowerShell reads from the scripts spawned
LogsRead(did) ==
  {UnescapeRange(did[i].logName, 1) : i \in {k \in DOMAIN did : did[k].ev = "spawn"}}

\* the call settles with the outcome r.ret after doing r.trace
Finish(r) ==
  /\ pc' = "done"
  /\ ret' = r.ret
  /\ trace' = r.trace
  /\ queried' = queried \cup LogsRead(r.trace)
  /\ UNCHANGED <<op, arg, env>>

QueryEventsCall ==
  /\ pc = "call" /\ op = "queryEvents"
  /\ Finish(queryEvents(arg.channel, arg.options, arg.config, env.outcomes[1]))

GetEventCall ==
  /\ pc = "call" /\ op = "getEvent"
  /\ Finish(getEvent(arg.channel, arg.recordId, arg.config, env.outcomes[1]))

GetChannelInfoCall ==
  /\ pc = "call" /\ op = "getChannelInfo"
  /\ Finish(getChannelInfo(arg.channel, arg.config, env.outcomes[1]))

ListChannelsCall ==
  /\ pc = "call" /\ op = "listChannels"
  /\ Finish(listChannels(arg.config, env.outcomes))

FindCrashSignalsCall ==
  /\ pc = "call" /\ op = "findCrashSignals"
  /\ Finish(findCrashSignals(arg.options, arg.config, env.now, env.outcomes))

\* the caller has the outcome; the next call can begin
Respond ==
  /\ pc = "done"
  /\ pc' = "idle"
  /\ op' = "none"
  /\ arg' = NoArg
  /\ env' = NoEnv
  /\ ret' = Return(Undefined)
  /\ trace' = <<>>
  /\ UNCHANGED queried

Next ==
  \/ RequestQueryEvents
  \/ RequestGetEvent
  \/ RequestGetChannelInfo
  \/ RequestListChannels
  \/ RequestFindCrashSignals
  \/ QueryEventsCall
  \/ GetEventCall
  \/ GetChannelInfoCall
  \/ ListChannelsCall
  \/ FindCrashSignalsCall
  \/ Respond

Spec == Init /\ [][Next]_vars

\* one call of validateChannel
InitChannel ==
  /\ pc = "call"
  /\ op = "validateChannel"
  /\ arg \in ChannelInputs
  /\ env = NoEnv
  /\ NoCall

ValidateChannelCall ==
  /\ pc = "call" /\ op = "validateChannel"
  /\ pc' = "done"
  /\ ret' = validateChannel(arg)
  /\ UNCHANGED <<op, arg, env, trace, queried>>

SpecChannel == InitChannel /\ [][ValidateChannelCall]_vars

\* one call of validateXPath
InitXPath ==
  /\ pc = "call"
  /\ op = "validateXPath"
  /\ arg \in [xpath : XPathInputs, config : Configs]
  /\ env = NoEnv
  /\ NoCall

ValidateXPathCall ==
  /\ pc = "call" /\ op = "validateXPath"
  /\ pc' = "done"
  /\ ret' = validateXPath(arg.xpath, arg.config)
  /\ UNCHANGED <<op, arg, env, trace, queried>>

SpecXPath == InitXPath /\ [][ValidateXPathCall]_vars

\* one query or one scan under every limit
InitLimits ==
  /\ pc = "call"
  /\ \/ /\ op = "queryEvents"
        /\ arg \in [channel : {Str(System)},
                    options : [xpath : {Undefined}, startTime : {Undefined},
                               endTime : {Undefined}, maxEvents : Requested],
                    config : LimitConfigs]
     \/ /\ op = "findCrashSignals"
        /\ arg \in [options : [hours : Requested, channels : {Given(<<Str(System)>>)}],
                    config : LimitConfigs]
  /\ env \in [now : Nows, outcomes : {<<Resolved("array", <<>>)>>}]
  /\ NoCall

NextLimits == QueryEventsCall \/ FindCrashSignalsCall

SpecLimits == InitLimits /\ [][NextLimits]_vars

\* one scan of one channel that holds one event
InitClassify ==
  /\ pc = "call"
  /\ op = "findCrashSignals"
  /\ arg = [options |-> [hours |-> Undefined, channels |-> Given(<<Str(System)>>)],
            config |-> DEFAULT_CONFIG]
  /\ env \in [now : {DateParse(<<"2","0","2","5","-","0","3","-","0","1","T","0","5",":","0","4",":","0","3",".","1","2","3","Z">>)},
              outcomes : {<<Resolved("array", <<e>>)>> : e \in ClassifyEvents}]
  /\ NoCall

SpecClassify == InitClassify /\ [][FindCrashSignalsCall]_vars

\* one scan of two channels, each run ending in every way
InitScan ==
  /\ pc = "call"
  /\ op = "findCrashSignals"
  /\ arg \in [options : [hours : {Undefined}, channels : ScanChannelLists],
              config : {DEFAULT_CONFIG}]
  /\ env \in [now : {DateParse(<<"2","0","2","5","-","0","3","-","0","1","T","0","7",":","0","0",":","0","0",".","0","0","0","Z">>)},
              outcomes : {<<a, b>> : a \in ScanRuns, b \in ScanRuns}]
  /\ NoCall

SpecScan == InitScan /\ [][FindCrashSignalsCall]_vars


\* one call of executePowerShell, the child behaving in every way
InitProcess ==
  /\ pc = "call"
  /\ op = "executePowerShell"
  /\ arg \in [script : ProcessScripts, timeoutMs : {DEFAULT_CONFIG.queryTimeoutMs}]
  /\ env \in {NoProcess(p) : p \in ProcessPlans}
  /\ NoCall

NextProcess ==
  PsSpawn \/ PsData \/ PsExit \/ PsKill \/ PsTimeout \/ PsClose \/ PsError

SpecProcess == InitProcess /\ [][NextProcess]_vars

\* the executor runs to its end, a timer that is armed and not cleared fires,
\* and a child that could not be started reports it on the next tick; the
\* child itself may write, exit and close or not
SpecProcessFair ==
  /\ SpecProcess
  /\ WF_vars(PsSpawn)
  /\ WF_vars(PsTimeout)
  /\ WF_vars(PsError)

\* one CallTool request: dispatchTool, then the handler's answer
InitTools ==
  /\ pc = "call"
  /\ op = "dispatchTool"
  /\ arg \in ToolCalls
  /\ env \in ToolMeets(arg.name)
  /\ NoCall

DispatchToolCall ==
  /\ pc = "call" /\ op = "dispatchTool"
  /\ Finish(dispatchTool(arg.name, arg.params, env))

CallToolRespond ==
  /\ pc = "done" /\ op = "dispatchTool"
  /\ pc' = "replied"
  /\ ret' = CallToolReply(ret)
  /\ UNCHANGED <<op, arg, env, trace, queried>>

NextTools == DispatchToolCall \/ CallToolRespond

SpecTools == InitTools /\ [][NextTools]_vars

\* one call of listChannels, each info query ending in every way
InitList ==
  /\ pc = "call"
  /\ op = "listChannels"
  /\ arg \in ListChannelsArgs
  /\ env \in [now : {NoClock},
              outcomes : {<<a, b>> : a \in ListRuns(System), b \in ListRuns(Application)}]
  /\ NoCall

SpecList == InitList /\ [][ListChannelsCall]_vars

\* one call of combineXPathFilters
InitCombine ==
  /\ pc = "call"
  /\ op = "combineXPathFilters"
  /\ arg \in [filters : FilterLists]
  /\ env = NoEnv
  /\ NoCall

CombineXPathFiltersCall ==
  /\ pc = "call" /\ op = "combineXPathFilters"
  /\ pc' = "done"
  /\ ret' = Return(combineXPathFilters(arg.filters))
  /\ UNCHANGED <<op, arg, env, trace, queried>>

SpecCombine == InitCombine /\ [][CombineXPathFiltersCall]_vars

\* one call of buildTimeRangeXPath
InitTimeRange ==
  /\ pc = "call"
  /\ op = "buildTimeRangeXPath"
  /\ arg \in [startTime : TimeInputs, endTime : TimeInputs]
  /\ env = NoEnv
  /\ NoCall

BuildTimeRangeXPathCall ==
  /\ pc = "call" /\ op = "buildTimeRangeXPath"
  /\ pc' = "done"
  /\ ret' = buildTimeRangeXPath(arg.startTime, arg.endTime)
  /\ UNCHANGED <<op, arg, env, trace, queried>>

SpecTimeRange == InitTimeRange /\ [][BuildTimeRangeXPathCall]_vars

\* calls of the channel guard between which the caller changes what it got
InitAllowlist ==
  /\ pc = "idle"
  /\ op = "none"
  /\ arg = NoArg
  /\ env = [allow |-> ALLOWED_CHANNELS, lists |-> <<>>]
  /\ NoCall

NextAllowlist ==
  GetAllowedChannelsStep \/ ValidateChannelStep \/ IsChannelAllowedStep \/ MutateStep

SpecAllowlist == InitAllowlist /\ [][NextAllowlist]_vars

\* up to MaxCalls logAudit calls in flight in one process
InitAudit ==
  /\ pc = "run"
  /\ op = "logAudit"
  /\ \E mkdir \in {"ok", "fails"}, appends \in AppendPlans :
       /\ env = NoAudit(mkdir, appends)
       /\ arg = [entries |-> AuditEntries(Len(appends))]
  /\ NoCall

NextAudit == LogAuditEnter \/ MkdirSettle \/ LogAuditResume \/ AppendFileSettle

SpecAudit == InitAudit /\ [][NextAudit]_vars
---------------------------------------------------------------------------
(* C1: validateChannel accepts exactly the strings "System" and            *)
(* "Application", returns them unchanged, and rejects every other input    *)
(* with ChannelNotAllowedError.                                            *)
C1_ExactMatchOnly ==
  pc = "done" /\ op = "validateChannel" =>
    /\ ret.ok <=> /\ arg.t = "string"
                  /\ \/ arg.s = <<"S","y","s","t","e","m">>
                     \/ arg.s = <<"A","p","p","l","i","c","a","t","i","o","n">>
    /\ ret.ok => ret.val = arg
    /\ ~ret.ok => ret.err = "ChannelNotAllowedError" /\ ret.code = "CHANNEL_NOT_ALLOWED"

\* a name with trailing whitespace has been rejected
C1_Witness ==
  /\ pc = "done" /\ op = "validateChannel"
  /\ arg = Str(<<"S","y","s","t","e","m"," ">>)
  /\ ~ret.ok


---------------------------------------------------------------------------
(* What the claims about the filter validator speak of, stated on the      *)
(* string itself                                                           *)

Done(o) == pc = "done" /\ op = o

FilterGiven == Done("validateXPath") /\ arg.xpath.t = "string"

EqualsIgnoreCase(a, b) ==
  Len(a) = Len(b) /\ \A i \in DOMAIN a : toLowerCaseChar(a[i]) = toLowerCaseChar(b[i])

\* the first position from k on that holds no whitespace (Len(s) + 1 if none)
NextNonSpace(s, k) ==
  IF \E j \in k..Len(s) : s[j] \notin WhiteSpace
    THEN CHOOSE j \in k..Len(s) :
           s[j] \notin WhiteSpace /\ \A m \in k..(j - 1) : s[m] \in WhiteSpace
    ELSE Len(s) + 1

\* the last position up to k that holds no whitespace (0 if none)
PrevNonSpace(s, k) ==
  IF \E j \in 1..k : s[j] \notin WhiteSpace
    THEN CHOOSE j \in 1..k :
           s[j] \notin WhiteSpace /\ \A m \in (j + 1)..k : s[m] \in WhiteSpace
    ELSE 0

TokenAt(s, j, tok) == j >= 1 /\ j + Len(tok) - 1 <= Len(s) /\ SubSeq(s, j, j + Len(tok) - 1) = tok

\* the name, in any letter case, starting a word at position i
NameAt(s, i, name) ==
  /\ i + Len(name) - 1 <= Len(s)
  /\ EqualsIgnoreCase(SubSeq(s, i, i + Len(name) - 1), name)
  /\ ~WordAt(s, i - 1)

CallsFunction(s, name) ==
  \E i \in DOMAIN s :
    NameAt(s, i, name) /\ TokenAt(s, NextNonSpace(s, i + Len(name)), <<"(">>)

UsesAxis(s, name) ==
  \E i \in DOMAIN s :
    NameAt(s, i, name) /\ TokenAt(s, NextNonSpace(s, i + Len(name)), <<":",":">>)

BlocklistedFunctions ==
  {<<"d","o","c","u","m","e","n","t">>, <<"d","o","c">>, <<"c","o","n","c","a","t">>, <<"s","t","r","i","n","g">>, <<"s","u","b","s","t","r","i","n","g">>, <<"t","r","a","n","s","l","a","t","e">>,
   <<"n","o","r","m","a","l","i","z","e","-","s","p","a","c","e">>, <<"c","o","n","t","a","i","n","s">>, <<"s","t","a","r","t","s","-","w","i","t","h">>, <<"s","t","r","i","n","g","-","l","e","n","g","t","h">>,
   <<"c","o","u","n","t">>, <<"s","u","m">>, <<"f","l","o","o","r">>, <<"c","e","i","l","i","n","g">>, <<"r","o","u","n","d">>, <<"t","r","u","e">>, <<"f","a","l","s","e">>,
   <<"n","o","t">>, <<"b","o","o","l","e","a","n">>, <<"n","u","m","b","e","r">>, <<"i","d">>, <<"n","a","m","e">>, <<"l","o","c","a","l","-","n","a","m","e">>,
   <<"n","a","m","e","s","p","a","c","e","-","u","r","i">>, <<"c","o","m","m","e","n","t">>, <<"p","r","o","c","e","s","s","i","n","g","-","i","n","s","t","r","u","c","t","i","o","n">>, <<"t","e","x","t">>,
   <<"n","o","d","e">>}

RestrictedAxes ==
  {<<"n","a","m","e","s","p","a","c","e">>, <<"p","r","e","c","e","d","i","n","g">>, <<"f","o","l","l","o","w","i","n","g">>, <<"p","r","e","c","e","d","i","n","g","-","s","i","b","l","i","n","g">>,
   <<"f","o","l","l","o","w","i","n","g","-","s","i","b","l","i","n","g">>, <<"a","n","c","e","s","t","o","r">>, <<"d","e","s","c","e","n","d","a","n","t">>, <<"a","n","c","e","s","t","o","r","-","o","r","-","s","e","l","f">>,
   <<"d","e","s","c","e","n","d","a","n","t","-","o","r","-","s","e","l","f">>}

HasVariableReference(s) == \E i \in DOMAIN s : s[i] = "$" /\ WordAt(s, i + 1)

HasParentTraversal(s) == \E i \in DOMAIN s : TokenAt(s, i, <<".",".">>)

HasInjectionMarker(s) ==
  \/ \E i \in DOMAIN s :
       /\ s[i] \in {"'", "\""}
       /\ LET j == NextNonSpace(s, i + 1)
          IN TokenAt(s, j, <<"]">>) /\ TokenAt(s, NextNonSpace(s, j + 1), <<"[">>)
  \/ \E i \in DOMAIN s : TokenAt(s, i, <<"-","-">>) \/ TokenAt(s, i, <<"/","*">>)

ContainsBlockedConstruct(s) ==
  \/ \E f \in BlocklistedFunctions : CallsFunction(s, f)
  \/ \E a \in RestrictedAxes : UsesAxis(s, a)
  \/ HasVariableReference(s)
  \/ HasParentTraversal(s)
  \/ HasInjectionMarker(s)

\* '[' and ']' among the first k characters
Opens(s, k) == Cardinality({i \in 1..k : s[i] = "["})
Closes(s, k) == Cardinality({i \in 1..k : s[i] = "]"})

Balanced(s) ==
  /\ \A k \in 0..Len(s) : Opens(s, k) >= Closes(s, k)
  /\ Opens(s, Len(s)) = Closes(s, Len(s))

\* the deepest bracket nesting: no prefix is more than n brackets deep
NestingAtMost(s, n) == \A k \in 0..Len(s) : Opens(s, k) - Closes(s, k) <= n

OverLength == Len(trim(arg.xpath.s)) > arg.config.xpathMaxLength

---------------------------------------------------------------------------
---------------------------------------------------------------------------
(* C4: every filter string that contains a function call (a name,          *)
(* possibly hyphenated, then an opening parenthesis) or an axis step (a    *)
(* name, then "::") is rejected by validateXPath.                          *)
NameChars == Lowers \cup Uppers \cup Digits \cup {"_", "-"}

\* the name that ends at position j
NameEndingAt(s, j) ==
  LET a == CHOOSE a \in 1..j :
             /\ \A m \in a..j : s[m] \in NameChars
             /\ a = 1 \/ s[a - 1] \notin NameChars
  IN SubSeq(s, a, j)

OperatorNames == {<<"a","n","d">>, <<"o","r">>, <<"d","i","v">>, <<"m","o","d">>}

HasFunctionCall(s) ==
  \E i \in DOMAIN s :
    /\ s[i] = "("
    /\ LET j == PrevNonSpace(s, i - 1) IN
         /\ j >= 1 /\ s[j] \in NameChars
         /\ LET n == NameEndingAt(s, j) IN
              /\ n[1] \in Lowers \cup Uppers \cup {"_"}
              /\ toLowerCase(n) \notin OperatorNames

HasAxisStep(s) ==
  \E i \in DOMAIN s :
    /\ TokenAt(s, i, <<":",":">>)
    /\ LET j == PrevNonSpace(s, i - 1) IN j >= 1 /\ s[j] \in NameChars

C4_AllCallsAndAxesBlocked ==
  FilterGiven /\ (HasFunctionCall(arg.xpath.s) \/ HasAxisStep(arg.xpath.s)) => ~ret.ok

---------------------------------------------------------------------------
(* C5: every non-empty value validateXPath returns is no longer than the   *)
(* configured maximum, has balanced brackets, at most maxPredicates '[',   *)
(* bracket nesting of at most maxDepth, only whitelisted characters, and   *)
(* no match of any blocklist pattern.                                      *)
C5_ValidatedFilterShape ==
  Done("validateXPath") /\ ret.ok /\ ret.val.t = "string" =>
    LET v == ret.val.s IN
      /\ Len(v) >= 1
      /\ Len(v) <= arg.config.xpathMaxLength
      /\ Balanced(v)
      /\ Opens(v, Len(v)) <= 10
      /\ NestingAtMost(v, 5)
      /\ \A i \in DOMAIN v : v[i] \in ALLOWED_CHARS
      /\ ~ContainsBlockedConstruct(v)
      /\ \A k \in DOMAIN BLOCKED_PATTERNS : ~RegExpTest(BLOCKED_PATTERNS[k], v)

\* a filter with nested and chained predicates has been returned
C5_Witness ==
  /\ Done("validateXPath") /\ ret.ok
  /\ ret.val = Str(<<"*","[","S","y","s","t","e","m","[","E","v","e","n","t","I","D","=","1","0","0","0"," ","a","n","d"," ","P","r","o","v","i","d","e","r","[","@","N","a","m","e","=","'","A","p","p","l","i","c","a","t","i","o","n"," ","E","r","r","o","r","'","]"," ","o","r"," ","L","e","v","e","l","=","2","]","]">>)

---------------------------------------------------------------------------
(* C6 as stated: every input whose trimmed form holds a character outside  *)
(* the set (letters, digits, brackets, parentheses, @ * / - . = < > !,     *)
(* quotes, colon, comma, whitespace) fails with XPathValidationError.      *)
ClaimedSafeChars ==
  Lowers \cup Uppers \cup Digits \cup WhiteSpace
    \cup {"[", "]", "(", ")", "@", "*", "/", "-", ".", "=", "<", ">", "!",
          "'", "\"", ":", ","}

HasCharOutside(s, set) == \E i \in DOMAIN s : s[i] \notin set

---------------------------------------------------------------------------
(* C7: an accepted filter is returned as the trimmed input, unchanged, and *)
(* validating the returned string again returns the same string.           *)
IsTrimmedFormOf(out, in) ==
  \E i \in 1..(Len(in) + 1) :
    /\ i + Len(out) - 1 <= Len(in)
    /\ SubSeq(in, i, i + Len(out) - 1) = out
    /\ \A m \in 1..(i - 1) : in[m] \in WhiteSpace
    /\ \A m \in (i + Len(out))..Len(in) : in[m] \in WhiteSpace
    /\ Len(out) >= 1 => out[1] \notin WhiteSpace /\ out[Len(out)] \notin WhiteSpace

C7_ReturnsTrimmedInput ==
  Done("validateXPath") /\ ret.ok /\ ret.val.t = "string" =>
    /\ arg.xpath.t = "string"
    /\ IsTrimmedFormOf(ret.val.s, arg.xpath.s)
    /\ validateXPath(ret.val, arg.config) = ret

\* a padded filter has been accepted
C7_Witness ==
  /\ Done("validateXPath") /\ ret.ok
  /\ arg.xpath = Str(<<" ","\t","*","[","S","y","s","t","e","m","[","E","v","e","n","t","I","D","=","1","0","0","0","]","]","\n"," ">>)
  /\ ret.val = Str(<<"*","[","S","y","s","t","e","m","[","E","v","e","n","t","I","D","=","1","0","0","0","]","]">>)

---------------------------------------------------------------------------
(* C8: the complexity limits are inclusive: a filter that is otherwise     *)
(* valid is accepted when its bracket nesting is at most 5 and it has at   *)
(* most 10 predicates, the limits themselves included, and fails with      *)
(* XPathComplexityError when either is exceeded.                           *)
OtherwiseValid(t, config) ==
  /\ Len(t) >= 1 /\ Len(t) <= config.xpathMaxLength
  /\ \A i \in DOMAIN t : t[i] \in ALLOWED_CHARS
  /\ ~ContainsBlockedConstruct(t)
  /\ Balanced(t)

C8_InclusiveLimits ==
  FilterGiven /\ OtherwiseValid(trim(arg.xpath.s), arg.config) =>
    IF NestingAtMost(trim(arg.xpath.s), 5) /\ Opens(trim(arg.xpath.s), Len(trim(arg.xpath.s))) <= 10
      THEN ret.ok
      ELSE ~ret.ok /\ ret.err = "XPathComplexityError"

\* a filter nested exactly 5 deep with exactly 10 predicates has been accepted
C8_Witness ==
  /\ FilterGiven /\ ret.ok
  /\ NestingAtMost(arg.xpath.s, 5) /\ ~NestingAtMost(arg.xpath.s, 4)
  /\ Opens(arg.xpath.s, Len(arg.xpath.s)) = 10

---------------------------------------------------------------------------
(* Claims about the reader                                                 *)

AllowedNames == {<<"S","y","s","t","e","m">>, <<"A","p","p","l","i","c","a","t","i","o","n">>}

SpawnsOf(did) == {i \in DOMAIN did : did[i].ev = "spawn"}

(* C2: every spawn of PowerShell by queryEvents, getEvent, getChannelInfo, *)
(* listChannels or findCrashSignals comes after a successful validation of *)
(* the channel it names, in the same call; the log name a spawned script   *)
(* reads is always "System" or "Application", in every call and over every *)
(* sequence of calls.                                                      *)
C2_SpawnOnlyAfterValidation ==
  /\ queried \subseteq AllowedNames
  /\ \A i \in SpawnsOf(trace) :
       /\ UnescapeRange(trace[i].logName, 1) \in AllowedNames
       /\ trace[i].logName \in AllowedNames
       /\ \E j \in 1..(i - 1) :
            /\ trace[j].ev = "validateChannel"
            /\ trace[j].logName = UnescapeRange(trace[i].logName, 1)

\* a scan was asked for a channel outside the list after an allowed one: the
\* allowed one has been queried, and the call failed on the other
C2_Witness ==
  /\ Done("findCrashSignals")
  /\ arg.options.channels = Given(<<Str(System), Str(Security)>>)
  /\ SpawnsOf(trace) # {}
  /\ queried = AllowedNames
  /\ ~ret.ok /\ ret.code = "CHANNEL_NOT_ALLOWED"

\* the value a missing or null request defaults to
OrDefault(requested, default) == IF requested.t = "number" THEN requested.n ELSE default

\* max(1, min(requested ?? default, maxCap))
ClampAsStated(requested, default, maxCap) ==
  IF OrDefault(requested, default) > maxCap
    THEN (IF maxCap < 1 THEN 1 ELSE maxCap)
  ELSE IF OrDefault(requested, default) < 1 THEN 1
  ELSE OrDefault(requested, default)

\* the filter a scan sends when the clock reads now and it looks h hours back
ScanFilterFor(now, h) ==
  Str(escapePowerShellString(
        CrashXPath(toISOString(Instant(now.sec - h * 3600, now.ms)))))

\* the cap a spawned query script carries, and the filter of a scan's script
CapsHandedOver == {trace[i].script.maxEvents : i \in SpawnsOf(trace)}
FiltersHandedOver == {trace[i].script.filterXPath : i \in SpawnsOf(trace)}

\* C9 as stated: the clamp is max(1, min(requested ?? default, maxCap)) for
\* every configuration, and a missing request gives the default (100, 24 hours)
C9_AsStated ==
  /\ Done("queryEvents") =>
       \A c \in CapsHandedOver :
         /\ c = ClampAsStated(arg.options.maxEvents, 100, arg.config.maxEventsPerQuery)
         /\ Nullish(arg.options.maxEvents) => c = 100
  /\ Done("findCrashSignals") =>
       \A f \in FiltersHandedOver :
         /\ f = ScanFilterFor(env.now,
                  ClampAsStated(arg.options.hours, 24, arg.config.maxTimeRangeHours))
         /\ Nullish(arg.options.hours) => f = ScanFilterFor(env.now, 24)

(* C9: under limits of at least 1, the number of events a query asks       *)
(* PowerShell for is max(1, min(requested ?? 100, maxEventsPerQuery)), and *)
(* a crash scan looks back max(1, min(requested ?? 24, maxTimeRangeHours)) *)
(* hours from the clock's reading: 1 for a request below 1, the cap for a  *)
(* request above it, and for a missing request the default or the cap,     *)
(* whichever is smaller.                                                   *)
C9_Clamp ==
  /\ Done("queryEvents") =>
       \A c \in CapsHandedOver :
         /\ c = ClampAsStated(arg.options.maxEvents, 100, arg.config.maxEventsPerQuery)
         /\ c >= 1 /\ c <= arg.config.maxEventsPerQuery
         /\ Nullish(arg.options.maxEvents) =>
              c = IF arg.config.maxEventsPerQuery < 100
                    THEN arg.config.maxEventsPerQuery ELSE 100
  /\ Done("findCrashSignals") =>
       /\ \A f \in FiltersHandedOver :
            /\ f = ScanFilterFor(env.now,
                     ClampAsStated(arg.options.hours, 24, arg.config.maxTimeRangeHours))
            /\ \E h \in 1..arg.config.maxTimeRangeHours : f = ScanFilterFor(env.now, h)
            /\ Nullish(arg.options.hours) =>
                 f = ScanFilterFor(env.now,
                       IF arg.config.maxTimeRangeHours < 24
                         THEN arg.config.maxTimeRangeHours ELSE 24)
       /\ \A c \in CapsHandedOver :
            c = ClampAsStated(Num(200), 100, arg.config.maxEventsPerQuery)

\* a query with no cap requested, under a limit of 50, has asked for 50; so
\* has one that asked for 0 asked for 1
C9_Witness ==
  /\ Done("queryEvents")
  /\ Nullish(arg.options.maxEvents)
  /\ arg.config.maxEventsPerQuery = 50
  /\ CapsHandedOver = {50}

\* the one event the scanned channel held
ScannedEvent == parseEvent(env.outcomes[1].items[1])

ContainsIgnoreCase(s, p) ==
  \E i \in 1..(Len(s) - Len(p) + 1) : EqualsIgnoreCase(SubSeq(s, i, i + Len(p) - 1), p)

\* the pattern definitions of the claim, in declaration order
IsApplicationCrash(e) ==
  \/ ContainsIgnoreCase(e.provider, <<"A","p","p","l","i","c","a","t","i","o","n"," ","E","r","r","o","r">>)
  \/ ContainsIgnoreCase(e.provider, <<"W","i","n","d","o","w","s"," ","E","r","r","o","r"," ","R","e","p","o","r","t","i","n","g">>)
  \/ e.eventId \in {1000, 1001}

IsApplicationHang(e) ==
  ContainsIgnoreCase(e.provider, <<"A","p","p","l","i","c","a","t","i","o","n"," ","H","a","n","g">>) \/ e.eventId = 1002

IsSystemCrash(e) ==
  \/ ContainsIgnoreCase(e.provider, <<"M","i","c","r","o","s","o","f","t","-","W","i","n","d","o","w","s","-","W","E","R","-","S","y","s","t","e","m","E","r","r","o","r","R","e","p","o","r","t","i","n","g">>)
  \/ ContainsIgnoreCase(e.provider, <<"B","u","g","C","h","e","c","k">>)
  \/ e.eventId \in {1001, 1}

IsServiceFailure(e) ==
  ContainsIgnoreCase(e.provider, <<"S","e","r","v","i","c","e"," ","C","o","n","t","r","o","l"," ","M","a","n","a","g","e","r">>)
    \/ e.eventId \in {7031, 7034, 7024}

IsWHEA(e) ==
  ContainsIgnoreCase(e.provider, <<"M","i","c","r","o","s","o","f","t","-","W","i","n","d","o","w","s","-","W","H","E","A","-","L","o","g","g","e","r">>)
    \/ e.eventId \in {17, 18, 19, 47}

FirstMatch(e) ==
  IF IsApplicationCrash(e) THEN "ApplicationCrash"
  ELSE IF IsApplicationHang(e) THEN "ApplicationHang"
  ELSE IF IsSystemCrash(e) THEN "SystemCrash"
  ELSE IF IsServiceFailure(e) THEN "ServiceFailure"
  ELSE IF IsWHEA(e) THEN "WHEA"
  ELSE "none"

(* C10: a scan classifies each event by the first pattern, in the order    *)
(* ApplicationCrash, ApplicationHang, SystemCrash, ServiceFailure, WHEA,   *)
(* whose provider list has an entry contained (ignoring case) in the       *)
(* event's provider or whose id list holds the event's id; an event gives  *)
(* at most one signal, and none when no pattern matches.                   *)
C10_FirstMatchWins ==
  (Done("findCrashSignals") /\ Len(env.outcomes) = 1
     /\ env.outcomes[1].kind = "resolve" /\ Len(env.outcomes[1].items) = 1
     /\ arg.options.channels = Given(<<Str(System)>>)) =>
    /\ ret.ok
    /\ Len(ret.val) <= 1
    /\ Len(ret.val) = 0 <=> FirstMatch(ScannedEvent) = "none"
    /\ Len(ret.val) = 1 =>
         /\ ret.val[1].crashType = FirstMatch(ScannedEvent)
         /\ ret.val[1].event = ScannedEvent

\* an event whose provider matches ApplicationHang and whose id matches the
\* earlier ApplicationCrash has been classified as ApplicationCrash
C10_Witness ==
  /\ Done("findCrashSignals")
  /\ Len(env.outcomes) = 1 /\ Len(env.outcomes[1].items) = 1
  /\ ScannedEvent.provider = <<"A","p","p","l","i","c","a","t","i","o","n"," ","H","a","n","g">>
  /\ ScannedEvent.eventId = 1000
  /\ ret.ok /\ Len(ret.val) = 1
  /\ ret.val[1].crashType = "ApplicationCrash"

---------------------------------------------------------------------------
\* the signals a finished scan returned
ScanReturned == Done("findCrashSignals") /\ ret.ok

SeverityAsStated(crashType) ==
  CASE crashType \in {"SystemCrash", "WHEA"} -> "Critical"
    [] crashType \in {"ApplicationCrash", "ServiceFailure"} -> "High"
    [] OTHER -> "Medium"

C12_BugCheckIsSystemCrash ==
  ScanReturned =>
    \A i \in DOMAIN ret.val :
      (ret.val[i].event.provider = <<"B","u","g","C","h","e","c","k">> /\ ret.val[i].event.eventId = 1001)
        => ret.val[i].crashType = "SystemCrash" /\ ret.val[i].severity = "Critical"

---------------------------------------------------------------------------
\* the channels a scan was asked for
ChannelsAsked ==
  IF arg.options.channels.given THEN arg.options.channels.list
  ELSE <<Str(<<"S","y","s","t","e","m">>), Str(<<"A","p","p","l","i","c","a","t","i","o","n">>)>>

AllChannelsAllowed ==
  \A k \in DOMAIN ChannelsAsked :
    ChannelsAsked[k].t = "string" /\ ChannelsAsked[k].s \in AllowedNames

\* the records the k-th run of the log source handed back, none if it failed
SourceEvents(k) ==
  IF env.outcomes[k].kind # "resolve" \/ env.outcomes[k].json = "null" THEN <<>>
  ELSE [j \in DOMAIN env.outcomes[k].items |-> parseEvent(env.outcomes[k].items[j])]

\* the records that are incidents, in scan order: channel by channel, and in
\* the order of the source within a channel
RECURSIVE ScanOrderFrom(_)
ScanOrderFrom(k) ==
  IF k > Len(ChannelsAsked) THEN <<>>
  ELSE SelectSeq(SourceEvents(k), LAMBDA e : FirstMatch(e) # "none") \o ScanOrderFrom(k + 1)

ScanOrder == ScanOrderFrom(1)

EventsReturned == [i \in DOMAIN ret.val |-> ret.val[i].event]

SpawnSeq == SelectSeq(trace, LAMBDA t : t.ev = "spawn")

(* C13: in a scan of allowed channels, the log source is queried once for  *)
(* every channel whether or not an earlier query failed, the scan returns, *)
(* and it returns exactly the incidents of the channels whose query        *)
(* succeeded; a channel whose query failed adds none.                      *)
C13_FailureIsolation ==
  (Done("findCrashSignals") /\ AllChannelsAllowed) =>
    /\ ret.ok
    /\ Len(SpawnSeq) = Len(ChannelsAsked)
    /\ \A k \in DOMAIN ChannelsAsked : SpawnSeq[k].logName = ChannelsAsked[k].s
    /\ Len(ret.val) = Len(ScanOrder)
    /\ \A i \in DOMAIN ScanOrder : \E j \in DOMAIN ret.val : ret.val[j].event = ScanOrder[i]
    /\ \A j \in DOMAIN ret.val : \E i \in DOMAIN ScanOrder : ret.val[j].event = ScanOrder[i]

\* the first channel's query timed out; the second was queried and its
\* incidents were returned
C13_Witness ==
  /\ ScanReturned
  /\ Len(env.outcomes) = 2 /\ Len(ChannelsAsked) = 2
  /\ env.outcomes[1].kind = "timeout"
  /\ env.outcomes[2].kind = "resolve"
  /\ Len(SpawnSeq) = 2
  /\ Len(ret.val) = 3

\* the instant of a record's timestamp
TimeOf(e) == DateParse(e.timeCreated)

NotOlder(a, b) == a.sec > b.sec \/ (a.sec = b.sec /\ a.ms >= b.ms)

SameTime(e, f) == TimeOf(e).sec = TimeOf(f).sec /\ TimeOf(e).ms = TimeOf(f).ms

(* C14: the list a scan returns is ordered by the instant of the events'   *)
(* timestamps, newest first, and the events of one instant are in scan     *)
(* order: channel order, then the order of the source within a channel.    *)
C14_NewestFirstStable ==
  (ScanReturned /\ AllChannelsAllowed) =>
    /\ Len(EventsReturned) = Len(ScanOrder)
    /\ \A i, j \in DOMAIN EventsReturned :
         i < j => NotOlder(TimeOf(EventsReturned[i]), TimeOf(EventsReturned[j]))
    /\ \A i \in DOMAIN EventsReturned :
         SelectSeq(EventsReturned, LAMBDA e : SameTime(e, EventsReturned[i]))
           = SelectSeq(ScanOrder, LAMBDA e : SameTime(e, EventsReturned[i]))

\* a scan found a newer event on the second channel and events of one instant
\* on both: the newer one is first, the equal ones in channel order
C14_Witness ==
  /\ ScanReturned /\ AllChannelsAllowed
  /\ Len(ret.val) >= 3
  /\ EventsReturned # ScanOrder
  /\ \E i, j \in DOMAIN EventsReturned :
       /\ i < j
       /\ SameTime(EventsReturned[i], EventsReturned[j])
       /\ EventsReturned[i].channel # EventsReturned[j].channel

----------------------------------------------------------------------------
TimerFired == op = "executePowerShell" /\ env.timer = "fired"

----------------------------------------------------------------------------
Replied == pc = "replied" /\ op = "dispatchTool"

\* the same runs, without the text the collaborator gave on failure
WithoutText(outcomes) ==
  [i \in DOMAIN outcomes |->
     IF outcomes[i].kind = "resolve" THEN outcomes[i]
     ELSE RejectedWith(outcomes[i].kind, <<>>)]

ReplyWithoutText ==
  CallToolReply(dispatchTool(arg.name, arg.params,
                             [env EXCEPT !.outcomes = WithoutText(@)]).ret)

(* C16: the error returned to the caller of a tool does not depend on the  *)
(* text the log-source collaborator gave with its failure (stderr, spawn   *)
(* error message, parse error): the reply equals the reply of the same     *)
(* call to runs that fail the same way with another text.                  *)
C16_ErrorHidesCollaboratorText == (Replied /\ ret.isError) => ret = ReplyWithoutText

----------------------------------------------------------------------------
ChannelTool == op = "dispatchTool" /\ arg.name \in {"query_events", "get_event"}

\* the call names a channel, and one outside the allowlist
ChannelParamRefused ==
  arg.params.channel.t = "string" /\ ~ArrayIncludes(ALLOWED_CHANNELS, arg.params.channel.s)

(* C17: a query_events or get_event call whose channel is not in the       *)
(* allowlist is answered with an error that carries the code               *)
(* CHANNEL_NOT_ALLOWED, and PowerShell is not spawned.                     *)
C17_ChannelNotAllowedCode ==
  (Replied /\ ChannelTool /\ ChannelParamRefused /\ env.audit = "ok") =>
    /\ ret.isError
    /\ ret.error[1] = "CHANNEL_NOT_ALLOWED"
    /\ SpawnSeq = <<>>

----------------------------------------------------------------------------
Dispatched == pc = "done" /\ op = "dispatchTool"

AuditEvents == {"tool_call", "tool_success", "tool_error"}

EntriesOf(events) == {i \in DOMAIN trace : trace[i].ev \in events}

(* C18: with a working audit file, every invocation that dispatchTool      *)
(* receives, whatever its tool name and parameters, leaves a tool_call     *)
(* entry before anything the tool does and exactly one tool_success or     *)
(* tool_error entry after it, according to how the call ended.             *)
C18_AllToolCallsLogged ==
  (Dispatched /\ env.audit = "ok") =>
    /\ EntriesOf({"tool_call"}) = {1}
    /\ trace[1] = AuditEntry("tool_call", arg.name)
    /\ EntriesOf({"tool_success", "tool_error"}) = {Len(trace)}
    /\ trace[Len(trace)].ev = IF ret.ok THEN "tool_success" ELSE "tool_error"

----------------------------------------------------------------------------
Listed == Done("listChannels")

\* the info query of the k-th channel gave an info record
InfoRead(k) == getChannelInfo(Str(ALLOWED_CHANNELS[k]), arg.config, env.outcomes[k]).ret

(* C19: listChannels returns, and returns one entry for System followed by *)
(* one entry for Application: the info its query gave, or, when the query  *)
(* failed in any way, the placeholder with the channel's name, enabled     *)
(* false and record count 0.                                               *)
C19_OneEntryPerChannel ==
  Listed =>
    /\ ret.ok
    /\ Len(ret.val) = Len(ALLOWED_CHANNELS)
    /\ \A k \in DOMAIN ALLOWED_CHANNELS :
         ret.val[k] = IF InfoRead(k).ok THEN InfoRead(k).val
                      ELSE [name |-> ALLOWED_CHANNELS[k], enabled |-> FALSE,
                            recordCount |-> 0]

\* the query of System failed and the one of Application answered
C19_Witness ==
  /\ Listed
  /\ env.outcomes[1].kind # "resolve"
  /\ env.outcomes[2].kind = "resolve" /\ env.outcomes[2].json = "object"
  /\ ret.val[1].name = System /\ ret.val[2].name = Application

----------------------------------------------------------------------------
Combined == Done("combineXPathFilters")

\* the records a filter is tried on: an event id and a level
FilterRecords == [EventID : FilterValues, Level : FilterValues]

FieldOf(rec, field) == IF field = <<"E","v","e","n","t","I","D">> THEN rec.EventID ELSE rec.Level

\* the record satisfies the filter: the field the filter names has its value
Selects(filter, rec) ==
  \E f \in FilterFields, n \in FilterValues :
    filter = FieldFilter(f, n) /\ FieldOf(rec, f) = n

(* C20: of two or more non-empty filters, combineXPathFilters returns a    *)
(* filter that selects exactly the records every one of them selects; with *)
(* no non-empty filter it returns undefined.                               *)
C20_CombinesWithAnd ==
  Combined =>
    IF Len(ValidFilters(arg.filters)) = 0 THEN ret.val = Undefined
    ELSE /\ ret.val.t = "string"
         /\ \A rec \in FilterRecords :
              Selects(ret.val.s, rec)
                <=> \A i \in DOMAIN ValidFilters(arg.filters) :
                      Selects(ValidFilters(arg.filters)[i].s, rec)

----------------------------------------------------------------------------
\* a value is given and is not, as a whole, a timestamp
Malformed(v) == Truthy(v) /\ ~DateParse(v.s).valid

(* C21: buildTimeRangeXPath rejects every start or end value that is not,  *)
(* as a whole, a well-formed timestamp, and builds no filter from it.      *)
C21_StrictTimestamps ==
  (Done("buildTimeRangeXPath") /\ (Malformed(arg.startTime) \/ Malformed(arg.endTime)))
    => ~ret.ok

----------------------------------------------------------------------------
\* the same scan, made while the clock reads another instant
ScanAtOtherTime ==
  findCrashSignals(arg.options, arg.config, DateParse(<<"2","0","2","4","-","0","2","-","2","9","T","2","3",":","3","0",":","0","0",".","0","0","0","Z">>),
                   env.outcomes)

(* C22: what a scan does and returns is fixed by the arguments of the call *)
(* and the answers of the log source: the same call with the same answers  *)
(* spawns the same scripts and returns the same signals whatever the clock *)
(* reads while it runs.                                                    *)
C22_ScanIgnoresAmbientClock ==
  Done("findCrashSignals") =>
    /\ trace = ScanAtOtherTime.trace
    /\ ret = ScanAtOtherTime.ret

----------------------------------------------------------------------------
\* the scripts of a query that set both ends of the time window
WindowScripts ==
  {i \in SpawnsOf(trace) : trace[i].script.startTime # <<>> /\ trace[i].script.endTime # <<>>}

WindowSeconds(script) == DateParse(script.endTime).sec - DateParse(script.startTime).sec

(* C23: no script that queryEvents spawns asks for a time window wider     *)
(* than the configured maximum lookback.                                   *)
C23_WindowWithinLookback ==
  Done("queryEvents") =>
    \A i \in WindowScripts :
      WindowSeconds(trace[i].script) <= arg.config.maxTimeRangeHours * 60 * 60

----------------------------------------------------------------------------
\* some array the caller holds no longer has the content it was handed
CallerChangedAList ==
  \E i \in DOMAIN env.lists : ContentsOf(env, env.lists[i]) # <<System, Application>>

(* C24: whatever callers did to the arrays they were handed (by            *)
(* getAllowedChannels or in a ChannelNotAllowedError), getAllowedChannels  *)
(* returns System, Application, and validateChannel and isChannelAllowed   *)
(* answer as they do for the original allowlist.                           *)
C24_AllowlistUnchanged ==
  /\ Done("getAllowedChannels") => ret = Return(<<System, Application>>)
  /\ Done("validateChannel") => ret = validateChannel(arg.channel)
  /\ Done("isChannelAllowed") => ret = Return(isChannelAllowed(arg.channel))

\* Security is refused after the caller changed a list it holds
C24_Witness ==
  /\ Done("validateChannel")
  /\ arg.channel = Str(<<"S","e","c","u","r","i","t","y">>)
  /\ ~ret.ok
  /\ CallerChangedAList

----------------------------------------------------------------------------
\* the checks of the filter validator in the order stated, each decided on
\* the trimmed input by itself, and the error each gives
CheckFails(i, xpath, config) ==
  CASE i = 1 -> xpath.t # "string"
    [] i = 2 -> Len(trim(xpath.s)) > config.xpathMaxLength
    [] i = 3 -> \E k \in DOMAIN BLOCKED_PATTERNS : RegExpTest(BLOCKED_PATTERNS[k], trim(xpath.s))
    [] i = 4 -> ~ALLOWED_STRUCTURE(trim(xpath.s))
    [] i = 5 -> BracketScan(trim(xpath.s)).unbalanced \/ BracketScan(trim(xpath.s)).depth # 0
    [] i = 6 -> BracketScan(trim(xpath.s)).maxSeenDepth > maxDepth
    [] OTHER -> PredicateCount(trim(xpath.s)) > maxPredicates

CheckErrors ==
  << [err |-> "XPathValidationError", msg |-> "XPath must be a string"],
     [err |-> "XPathComplexityError", msg |-> "XPath exceeds maximum length"],
     [err |-> "XPathValidationError", msg |-> "XPath contains blocked constructs"],
     [err |-> "XPathValidationError", msg |-> "XPath contains disallowed characters"],
     [err |-> "XPathValidationError", msg |-> "Unbalanced brackets in XPath"],
     [err |-> "XPathComplexityError", msg |-> "XPath exceeds maximum nesting depth"],
     [err |-> "XPathComplexityError", msg |-> "XPath exceeds maximum predicate count"] >>

\* the first check from the i-th on that fails, or 0 when none does
RECURSIVE FirstFailedFrom(_, _, _)
FirstFailedFrom(i, xpath, config) ==
  IF i > Len(CheckErrors) THEN 0
  ELSE IF CheckFails(i, xpath, config) THEN i
  ELSE FirstFailedFrom(i + 1, xpath, config)

\* the outcome is the one of the k-th check failing, or success for k = 0
OutcomeOfCheck(k, outcome) ==
  IF k = 0 THEN outcome.ok
  ELSE ~outcome.ok /\ outcome.err = CheckErrors[k].err /\ outcome.msg = CheckErrors[k].msg

NoFilterGiven(xpath) == Nullish(xpath) \/ (xpath.t = "string" /\ trim(xpath.s) = <<>>)

----------------------------------------------------------------------------
\* the same call with an audit log that works
WithWorkingAudit == dispatchTool(arg.name, arg.params, [env EXCEPT !.audit = "ok"])

(* C26: a tool call ends the same way, for its caller and in what it asks  *)
(* of the log source, whether or not the audit directory can be created    *)
(* and the audit file appended to.                                         *)
C26_AuditFailureHarmless ==
  (Dispatched /\ arg.name \in ToolNames) =>
    /\ ret = WithWorkingAudit.ret
    /\ SpawnSeq = SelectSeq(WithWorkingAudit.trace, LAMBDA t : t.ev = "spawn")


---------------------------------------------------------------------------
\* the filter a scan builds from the clock's reading and its clamped lookback
ScanXPath ==
  CrashXPath(ScanStartTime(env.now, ClampHours(arg.options.hours, arg.config)))

(* C27: for every requested lookback, every cap on it and every reading of *)
(* the clock, the filter a scan builds over all event ids of the pattern   *)
(* table and the time lower bound is returned unchanged by validateXPath   *)
(* under the default limits and is at most 500 characters long; under a    *)
(* length limit of 500 every allowed channel of the scan is queried, with  *)
(* exactly that filter.                                                    *)
C27_ScanFilterAccepted ==
  (Done("findCrashSignals") /\ AllChannelsAllowed) =>
    /\ validateXPath(Str(ScanXPath), DEFAULT_CONFIG) = Return(Str(ScanXPath))
    /\ Len(ScanXPath) <= 500
    /\ arg.config.xpathMaxLength = 500 =>
         /\ Len(SpawnSeq) = Len(ChannelsAsked)
         /\ \A k \in DOMAIN SpawnSeq :
              SpawnSeq[k].script.filterXPath = Str(escapePowerShellString(ScanXPath))

\* a scan asked for 1000 hours under a cap of 168 has queried its channel
\* with the filter it built
C27_Witness ==
  /\ Done("findCrashSignals")
  /\ arg.options.hours = Num(1000) /\ arg.config.maxTimeRangeHours = 168
  /\ Len(SpawnSeq) = 1
  /\ SpawnSeq[1].script.filterXPath = Str(escapePowerShellString(ScanXPath))
  /\ validateXPath(Str(ScanXPath), DEFAULT_CONFIG).ok

---------------------------------------------------------------------------
Settled == op = "executePowerShell" /\ pc = "done"

\* no step changes the outcome of a settled call
SettledForGood == Settled => (pc' = "done" /\ ret' = ret)

\* a call is resolved only after the child closed with exit code 0 and output
\* that is blank or parses, and with what that output parses to
ResolvedOnCleanExit ==
  (Settled /\ ret.ok) =>
    /\ env.closed /\ env.ps = "exited" /\ env.plan.code = 0
    /\ \/ trim(env.stdout) = <<>> /\ ret.val = [json |-> "array", items |-> <<>>]
       \/ trim(env.stdout) # <<>> /\ ret = JSONParse(env.stdout)

\* the timer fires only on a pending call; a close or an error that came
\* first has cleared it
TimerCancelled ==
  /\ Settled => env.timer \in {"cleared", "fired"}
  /\ (op = "executePowerShell" /\ env.timer = "fired") => ret = TimeoutError
  /\ (op = "executePowerShell" /\ env.closed) => env.timer \in {"cleared", "fired"}

(* C28: every executePowerShell call is eventually settled and is settled  *)
(* once: whatever the order of the child's output, exit, close and error   *)
(* events, the kill by spawn's timeout and the timer callback, no step     *)
(* changes the outcome of a settled call; the call is resolved only when   *)
(* the child closed with exit code 0 and blank or parsable output; and the *)
(* timer is cleared whenever close or error came before it fired.          *)
C28_SettlesExactlyOnce ==
  /\ <>Settled
  /\ [][SettledForGood]_vars
  /\ [](ResolvedOnCleanExit /\ TimerCancelled)

\* the child was killed by spawn's timeout and closed before the timer
\* callback ran: the call is rejected for the exit code, the timer cleared
C28_Witness ==
  /\ Settled
  /\ env.ps = "killed" /\ env.closed /\ env.timer = "cleared"
  /\ ~ret.ok /\ ret # TimeoutError

---------------------------------------------------------------------------
\* the calls that have entered logAudit, and those past await initialize()
Entered == {i \in DOMAIN env.calls : env.calls[i] # "start"}
PastInit == {i \in DOMAIN env.calls : env.calls[i] \in {"appending", "done"}}

(* C29: with several logAudit calls in flight, in every order of their     *)
(* steps and of the ends of mkdir and appendFile, mkdir is started at most *)
(* once, by the first call that enters; no call starts appendFile, and no  *)
(* entry is in the file, unless that mkdir has succeeded.                  *)
C29_InitRaceFree ==
  op = "logAudit" =>
    /\ env.mkdirs <= 1
    /\ env.mkdirs = 1 <=> Entered # {}
    /\ PastInit # {} => (env.initPromise = "resolved" /\ env.mkdir = "ok")
    /\ trace # <<>> => (env.initPromise = "resolved" /\ env.mkdir = "ok")
    /\ Len(trace) <= Cardinality(PastInit)

\* two calls have written their entries after the one mkdir, and a third
\* has entered and awaits the same promise
C29_Witness ==
  /\ op = "logAudit"
  /\ Len(env.calls) = 3
  /\ env.calls[1] = "done" /\ env.calls[2] = "done" /\ env.calls[3] = "awaitInit"
  /\ Len(trace) = 2
  /\ env.mkdirs = 1

---------------------------------------------------------------------------
ChannelRefused(k) ==
  ~(ChannelsAsked[k].t = "string" /\ ChannelsAsked[k].s \in AllowedNames)

\* the place in the list of the first channel that is not allowed
FirstRefused ==
  CHOOSE k \in DOMAIN ChannelsAsked :
    ChannelRefused(k) /\ \A j \in 1..(k - 1) : ~ChannelRefused(j)

(* C30: a scan whose channel list holds a channel that is not allowed      *)
(* fails with ChannelNotAllowedError for the first such channel and        *)
(* returns no signals; every channel listed before it has been validated   *)
(* and queried by then, in order, and no channel from it on has been.      *)
C30_ValidatesInLoop ==
  (Done("findCrashSignals") /\ ~AllChannelsAllowed) =>
    /\ ret = validateChannel(ChannelsAsked[FirstRefused])
    /\ ~ret.ok /\ ret.err = "ChannelNotAllowedError" /\ ret.val = Undefined
    /\ Len(SpawnSeq) = FirstRefused - 1
    /\ \A k \in DOMAIN SpawnSeq : SpawnSeq[k].logName = ChannelsAsked[k].s
    /\ Cardinality(EntriesOf({"validateChannel"})) = 2 * (FirstRefused - 1)

\* System was queried and gave its events; then Security was refused and
\* the scan failed
C30_Witness ==
  /\ Done("findCrashSignals")
  /\ arg.options.channels = Given(<<Str(<<"S","y","s","t","e","m">>), Str(<<"S","e","c","u","r","i","t","y">>)>>)
  /\ env.outcomes[1].kind = "resolve" /\ env.outcomes[1].items # <<>>
  /\ Len(SpawnSeq) = 1 /\ SpawnSeq[1].logName = <<"S","y","s","t","e","m">>
  /\ ~ret.ok /\ ret.code = "CHANNEL_NOT_ALLOWED"

=============================================================================
